---- MODULE Spec2Model ----
(***************************************************************************)
(* A model of the occ front end: the logical source reader (reader.c), the *)
(* character buffer it stashes put-back characters in (cstring.h), the     *)
(* lexer's scanner and its stack of token stash frames (lexer.c, token.c). *)
(*                                                                         *)
(* Characters are their byte values; a source text is a sequence of bytes  *)
(* and a pointer into it is a 0-based offset, so that pe = Len(text) and   *)
(* the byte at pe is the buffer's terminating zero.                        *)
(***************************************************************************)
EXTENDS Integers, Sequences, FiniteSets, TLC

VARIABLES
    streams,    \* reader->streams: the array of stream slots
    last,       \* reader->last: index of the active slot, 0 for NULL
    status,     \* "ok", or "crashed" once an assertion or a wild access ended the run
    op,         \* the operation that produced this state
    ret,        \* the character it returned (get, peek), else 0
    retb,       \* the boolean it returned (push), else TRUE
    out,        \* characters delivered by get since the push, while no unget happened
    pure,       \* TRUE while out is the whole history of the active stream
    trans,      \* the (column, line_note, pc) right after each line step of the last get
    how,        \* where the last get took its character from
    synth,      \* while pure: the line-feeds get made up at the end of the source
    ended,      \* the slots whose stream has returned end-of-input from a get of the reader
    snapshots,  \* lexer->snapshots: the stack of token stash frames
    tok,        \* lexer->tok: what the scratch token keeps from one scan to the next
    held,       \* the tokens the caller got from the lexer and still owns
    rtok,       \* the token the last lexer operation returned
    diags,      \* the number of diagnostics the last lexer operation emitted
    destroyed,  \* the stashed or held tokens the last operation destroyed
    toks,       \* the tokens lexer_scan returned since the push
    got,        \* the characters those scans took from the reader, less those put back
    twin,       \* a second lexer over a reader of its own
    hdr,        \* the cstring_header_t of a character buffer a client works on
    cret,       \* the last operation on that buffer, its argument and what it returned
    mem,        \* the objects of the tokens a client works on: which are allocated, which were released
    dict,       \* the dict_t of a dictionary a client works on
    dcli        \* what the client of the dictionary holds and has seen: the keys it stored, the last
                \* operation and its result, its safe iterators, its dict_scan iteration

hist == <<out, pure, trans, how, synth, ended>>

lexv == <<snapshots, tok, held, rtok, diags, destroyed>>

strv == <<hdr, cret, mem, dict, dcli>>

scanv == <<toks, got, twin, hdr, cret, mem, dict, dcli>>

vars == <<streams, last, status, op, ret, retb, out, pure, trans, how, synth, ended,
          snapshots, tok, held, rtok, diags, destroyed, toks, got, twin, hdr, cret, mem,
          dict, dcli>>

-----------------------------------------------------------------------------
(* Bounds of the model *)

MaxLen == 4
MaxShort == 3
MaxStash == 2
MaxEofs == 2
MaxDepth == 2
MaxFrame == 2
MaxFrames == 2
MaxHeld == 2

-----------------------------------------------------------------------------
(* Character values *)

EOF == -1
NUL == 0
LF == 10
CR == 13
SP == 32
BSL == 92
CH_a == 97
PLUS == 43

\* sizeof(struct token_s) in token pointers: the six fields of a token
TokenStride == 6

STREAM_TYPE_FILE == "file"
STREAM_TYPE_STRING == "string"

\* utils.h is not part of the sources: the C classification of white space.
ISSPACE(c) == c \in {SP, 9, LF, 11, 12, CR}

-----------------------------------------------------------------------------
(* cstring.h: the stash is a character buffer; only its bytes matter here. *)

\* cstring_new_n(NULL, n): an empty buffer with n bytes of headroom.
cstring_new_n_empty == << >>

cstring_push_ch(cs, ch) == Append(cs, ch % 256)

cstring_length(cs) == Len(cs)

\* a pop that takes the oldest byte instead of the newest
cstring_pop_ch_first(cs) == IF Len(cs) > 0 THEN cs[1] ELSE EOF

\* the value cstring_pop_ch returns, and the buffer it leaves
cstring_pop_ch_value(cs) == IF Len(cs) > 0 THEN cs[Len(cs)] ELSE EOF

cstring_pop_ch_rest(cs) == IF Len(cs) > 0 THEN SubSeq(cs, 1, Len(cs) - 1) ELSE cs

-----------------------------------------------------------------------------
(* struct stream_s *)

\* A slot array_push_back handed out and __stream_init__ never filled.
GarbageSlot ==
    [init |-> FALSE, type |-> STREAM_TYPE_FILE, text |-> << >>, pc |-> 0,
     line_note |-> 0, line |-> 0, column |-> 0, lastch |-> NUL,
     stashed |-> << >>, st |-> "null"]

\* __stream_init__ on success: the tail of the function.
stream_init(type, s) ==
    [init |-> TRUE, type |-> type, text |-> s, pc |-> 0,
     line_note |-> 0, line |-> 1, column |-> 1, lastch |-> NUL,
     stashed |-> << >>, st |-> "null"]

pe(s) == Len(s.text)

\* *p for a pointer p in [begin, end]: the byte at end is the terminating zero.
At(s, p) == IF p < Len(s.text) THEN s.text[p + 1] ELSE NUL

\* a line step that forgets to count the line
STEP_NoLine(s) == [s EXCEPT !.column = 1, !.line_note = s.pc]

\* a line step that forgets to reset the column
STEP_KeepColumn(s) == [s EXCEPT !.line = @ + 1, !.line_note = s.pc]

STREAM_STEP_BY_LINE(s) ==
    [s EXCEPT !.line = @ + 1, !.column = 1, !.line_note = s.pc]

Snap(s) == [column |-> s.column, line_note |-> s.line_note, pc |-> s.pc]

\* __stream_push__
stream_push(s, ch) ==
    [s EXCEPT !.stashed = cstring_push_ch(IF s.st = "null" THEN cstring_new_n_empty ELSE @, ch),
              !.st = "live"]

\* __stream_pop__: the value
stream_pop_value(s) ==
    IF s.st = "null" \/ cstring_length(s.stashed) <= 0
    THEN EOF
    ELSE cstring_pop_ch_value(s.stashed)

\* The while loop of the backslash case, run from scratch pointer p.
\* found: a line terminator ends the white space; p is then its last byte.
RECURSIVE BackslashLoop(_, _)
BackslashLoop(s, p) ==
    IF p < pe(s) /\ ISSPACE(At(s, p))
    THEN IF At(s, p) = CR
         THEN [found |-> TRUE, p |-> IF At(s, p + 1) = LF THEN p + 1 ELSE p]
         ELSE IF At(s, p) = LF
              THEN [found |-> TRUE, p |-> p]
              ELSE BackslashLoop(s, p + 1)
    ELSE [found |-> FALSE, p |-> p]

\* an end rule that forgets that end-of-input was already delivered
EndChar_OnlyLF(s) == IF s.lastch = LF THEN EOF ELSE LF

\* The character get gives at the end of the stream.
EndChar(s) == IF s.lastch = LF \/ s.lastch = EOF THEN EOF ELSE LF

\* a carriage-return that leaves the line-feed after it in the input
SkipLineFeed_Never(s) == s

\* After a carriage-return: consume a line-feed that follows it.
SkipLineFeed(s) == IF At(s, s.pc) = LF THEN [s EXCEPT !.pc = @ + 1] ELSE s

\* __stream_next__ from the label nextch on; tr collects the line steps.
RECURSIVE stream_nextch(_, _)
stream_nextch(s, tr) ==
    IF s.pc >= pe(s)
    THEN [s |-> s, tr |-> tr, how |-> "end", ch |-> EndChar(s)]
    ELSE LET ch == At(s, s.pc)
             s1 == [s EXCEPT !.pc = @ + 1]
         IN  IF ch = CR
             THEN LET s3 == STREAM_STEP_BY_LINE(SkipLineFeed(s1))
                  IN  [s |-> s3, tr |-> Append(tr, Snap(s3)), how |-> "newline", ch |-> LF]
             ELSE IF ch = LF
             THEN LET s3 == STREAM_STEP_BY_LINE(s1)
                  IN  [s |-> s3, tr |-> Append(tr, Snap(s3)), how |-> "newline", ch |-> LF]
             ELSE IF ch = BSL
             THEN LET r == BackslashLoop(s1, s1.pc)
                  IN  IF r.found
                      THEN LET s3 == STREAM_STEP_BY_LINE([s1 EXCEPT !.pc = r.p + 1])
                           IN  stream_nextch(s3, Append(tr, Snap(s3)))
                      ELSE IF r.p = pe(s1)
                           THEN [s |-> [s1 EXCEPT !.pc = r.p], tr |-> tr,
                                 how |-> "bseof", ch |-> LF]
                           ELSE [s |-> s1, tr |-> tr, how |-> "byte", ch |-> BSL]
             ELSE [s |-> [s1 EXCEPT !.column = @ + 1], tr |-> tr,
                   how |-> "byte", ch |-> ch]

\* __stream_next__
stream_next(s) ==
    IF stream_pop_value(s) # EOF
    THEN [s |-> [s EXCEPT !.stashed = cstring_pop_ch_rest(@),
                          !.lastch = stream_pop_value(s)],
          tr |-> << >>, how |-> "stash", ch |-> stream_pop_value(s)]
    ELSE LET r == stream_nextch(s, << >>)
         IN  [s |-> [r.s EXCEPT !.lastch = r.ch], tr |-> r.tr, how |-> r.how, ch |-> r.ch]

\* The get made up a line-feed: the source holds no line terminator for it.
MadeUp(r) == (r.how = "end" /\ r.ch = LF) \/ r.how = "bseof"

\* The while loop of the backslash case of __stream_peek__.
RECURSIVE PeekBackslashLoop(_, _)
PeekBackslashLoop(s, p) ==
    IF p < pe(s) /\ ISSPACE(At(s, p))
    THEN IF At(s, p) = CR
         THEN [found |-> TRUE, p |-> (IF At(s, p + 1) = LF THEN p + 1 ELSE p) + 1]
         ELSE IF At(s, p) = LF
              THEN [found |-> TRUE, p |-> p + 1]
              ELSE PeekBackslashLoop(s, p + 1)
    ELSE [found |-> FALSE, p |-> p]

\* a peek that reports end-of-input whenever the cursor is at the end
PeekEndChar_Eof(s) == EOF

\* The character peek gives at the end of the stream.
PeekEndChar(s) == IF s.lastch = LF \/ s.lastch = EOF THEN EOF ELSE LF

\* __stream_peek__ from the label nextch on, with scratch pointer p.
RECURSIVE stream_peekch(_, _)
stream_peekch(s, p) ==
    IF p >= pe(s)
    THEN PeekEndChar(s)
    ELSE LET ch == At(s, p)
         IN  IF ch = CR \/ ch = LF
             THEN LF
             ELSE IF ch = BSL
             THEN LET r == PeekBackslashLoop(s, p + 1)
                  IN  IF r.found
                      THEN stream_peekch(s, r.p)
                      ELSE IF r.p = pe(s) THEN LF ELSE ch
             ELSE ch

\* __stream_peek__
stream_peek(s) ==
    IF s.st # "null" /\ cstring_length(s.stashed) > 0
    THEN s.stashed[cstring_length(s.stashed)]
    ELSE stream_peekch(s, s.pc)

-----------------------------------------------------------------------------
(* reader_t *)

reader_depth == Len(streams)

reader_is_empty == Len(streams) = 0

Active == streams[last]

\* The stream can be read: it was initialised and its stash was not freed.
Sound(s) == s.init /\ s.st # "freed"

Alphabet == {CH_a, SP, BSL, CR, LF}

Sources == UNION {[1..n -> Alphabet] : n \in 0..MaxLen}

ShortSources == UNION {[1..n -> Alphabet] : n \in 0..MaxShort}

StackSources == {<<CH_a>>}

UngetChars == {CH_a, LF}

CountEof(q) == Cardinality({i \in 1..Len(q) : q[i] = EOF})

Crash(o) ==
    /\ status' = "crashed"
    /\ op' = o
    /\ UNCHANGED <<streams, last, ret, retb, hist, toks, got>>

\* A new source, or the one below: the scans so far are history.
ScanReset ==
    /\ toks' = << >>
    /\ got' = 0

\* reader_push that succeeds
reader_push(type, s, depth) ==
    /\ status = "ok"
    /\ UNCHANGED <<lexv, twin, strv>>
    /\ ScanReset
    /\ Len(streams) < depth
    /\ streams' = Append(streams, stream_init(type, s))
    /\ last' = Len(streams) + 1
    /\ retb' = TRUE
    /\ op' = "push"
    /\ out' = << >>
    /\ pure' = TRUE
    /\ trans' = << >>
    /\ how' = "none"
    /\ synth' = 0
    /\ ended' = ended \ {Len(streams) + 1}
    /\ UNCHANGED <<status, ret>>

\* reader_push of a file that cannot be opened or read
reader_push_fail(depth) ==
    /\ status = "ok"
    /\ UNCHANGED <<lexv, scanv>>
    /\ Len(streams) < depth
    /\ streams' = Append(streams, GarbageSlot)
    /\ retb' = FALSE
    /\ op' = "push"
    /\ UNCHANGED <<last, status, ret, hist>>

\* reader_pop
reader_pop ==
    /\ status = "ok"
    /\ UNCHANGED <<lexv, twin, strv>>
    /\ IF Len(streams) = 0 \/ last = 0
       THEN Crash("pop")
       ELSE /\ \/ /\ LET n == Len(streams) - 1
                         freed == [streams EXCEPT ![last].st =
                                      IF @ = "live" THEN "freed" ELSE @]
                     IN  /\ streams' = SubSeq(freed, 1, n)
                         /\ last' = n
                  /\ op' = "pop"
                  /\ ScanReset
                  /\ out' = << >>
                  /\ pure' = FALSE
                  /\ trans' = << >>
                  /\ how' = "none"
                  /\ synth' = 0
                  /\ ended' = ended \ {last}
                  /\ UNCHANGED <<status, ret, retb>>
               \/ /\ ~Active.init
                  /\ Crash("pop")

\* reader_get
reader_get ==
    /\ status = "ok"
    /\ UNCHANGED <<lexv, scanv>>
    /\ IF last = 0
       THEN /\ ret' = EOF
            /\ op' = "get"
            /\ UNCHANGED <<streams, last, status, retb, hist>>
       ELSE \/ /\ Active.init
               /\ LET r == stream_next(Active)
                      track == pure /\ CountEof(out) < MaxEofs
                  IN  /\ streams' = [streams EXCEPT ![last] = r.s]
                      /\ ret' = r.ch
                      /\ trans' = r.tr
                      /\ how' = r.how
                      /\ out' = IF track THEN Append(out, r.ch) ELSE << >>
                      /\ synth' = IF track /\ MadeUp(r) THEN synth + 1
                                  ELSE IF track THEN synth ELSE 0
                      /\ pure' = track
                      /\ ended' = IF r.ch = EOF THEN ended \cup {last} ELSE ended
               /\ op' = "get"
               /\ UNCHANGED <<last, status, retb>>
            \/ /\ ~Active.init
               /\ \E c \in Alphabet \cup {EOF} :
                     /\ ret' = c
                     /\ op' = "get"
                     /\ UNCHANGED <<streams, last, status, retb, hist>>
            \/ /\ ~Sound(Active)
               /\ Crash("get")

\* reader_peek
reader_peek ==
    /\ status = "ok"
    /\ UNCHANGED <<lexv, scanv>>
    /\ IF last = 0
       THEN /\ ret' = EOF
            /\ op' = "peek"
            /\ UNCHANGED <<streams, last, status, retb, hist>>
       ELSE \/ /\ Active.init
               /\ ret' = stream_peek(Active)
               /\ op' = "peek"
               /\ UNCHANGED <<streams, last, status, retb, hist>>
            \/ /\ ~Active.init
               /\ \E c \in Alphabet \cup {EOF} :
                     /\ ret' = c
                     /\ op' = "peek"
                     /\ UNCHANGED <<streams, last, status, retb, hist>>
            \/ /\ ~Sound(Active)
               /\ Crash("peek")

\* reader_unget
reader_unget(ch) ==
    /\ status = "ok"
    /\ UNCHANGED <<lexv, scanv>>
    /\ IF ch = EOF \/ ch = NUL \/ last = 0
       THEN Crash("unget")
       ELSE \/ /\ Active.init
               /\ Len(Active.stashed) < MaxStash
               /\ streams' = [streams EXCEPT ![last] = stream_push(@, ch)]
               /\ op' = "unget"
               /\ out' = << >>
               /\ pure' = FALSE
               /\ synth' = 0
               /\ UNCHANGED <<last, status, ret, retb, trans, how, ended>>
            \/ /\ ~Sound(Active)
               /\ Crash("unget")

-----------------------------------------------------------------------------
(* The reader over every short source, one stream at a time *)

\* reader_create
reader_create ==
    /\ streams = << >>
    /\ last = 0
    /\ status = "ok"
    /\ op = "create"
    /\ ret = 0
    /\ retb = TRUE
    /\ out = << >>
    /\ pure = FALSE
    /\ trans = << >>
    /\ how = "none"
    /\ synth = 0
    /\ ended = {}
    /\ toks = << >>
    /\ got = 0

\* The value of a token pointer that is NULL.
NullTok ==
    [type |-> "NULL", cs |-> << >>, line |-> 0, column |-> 0, row |-> 0,
     bol |-> FALSE, spaces |-> 0]

\* No second lexer.
NoTwin == [st |-> "none"]

\* No dictionary in a client's hands.
NoDict ==
    /\ dict = [st |-> "none"]
    /\ dcli = [st |-> "none"]

\* No character buffer in a client's hands.
NoString ==
    /\ hdr = [length |-> 0, unused |-> 0, buffer |-> << >>]
    /\ cret = [f |-> "none", arg |-> 0, val |-> 0]
    /\ mem = [next |-> 1, live |-> {}, once |-> {}, twice |-> {}, tokens |-> {}]
    /\ NoDict

\* A reader on its own: no lexer was created over it.
Init ==
    /\ reader_create
    /\ snapshots = << >>
    /\ tok = [spaces |-> 0, bol |-> FALSE]
    /\ held = {}
    /\ rtok = NullTok
    /\ diags = 0
    /\ destroyed = {}
    /\ twin = NoTwin
    /\ NoString

Next ==
    \/ \E s \in Sources : reader_push(STREAM_TYPE_STRING, s, 1)
    \/ reader_push_fail(1)
    \/ reader_pop
    \/ reader_get
    \/ reader_peek

Spec == Init /\ [][Next]_vars

-----------------------------------------------------------------------------
(* The reader with put-back, over shorter sources *)

NextUnget ==
    \/ \E s \in ShortSources : reader_push(STREAM_TYPE_STRING, s, 1)
    \/ reader_pop
    \/ reader_get
    \/ reader_peek
    \/ \E c \in UngetChars \cup {EOF, NUL} : reader_unget(c)

SpecUnget == Init /\ [][NextUnget]_vars

-----------------------------------------------------------------------------
(* The reader's stack of streams, with pushes that fail *)

NextStack ==
    \/ \E s \in StackSources : reader_push(STREAM_TYPE_FILE, s, MaxDepth)
    \/ reader_push_fail(MaxDepth)
    \/ reader_pop
    \/ reader_get
    \/ reader_peek
    \/ reader_unget(CH_a)

SpecStack == Init /\ [][NextStack]_vars

-----------------------------------------------------------------------------
(* utils.h is not part of the sources: the character classes of the lexer, *)
(* as the C library classifies them.                                       *)

ISDIGIT(c) == c \in 48..57

ISALPHA(c) == c \in (65..90) \cup (97..122)

ISIDNUM(c) == ISALPHA(c) \/ ISDIGIT(c) \/ c = 95

ISHEX(c) == ISDIGIT(c) \/ c \in (65..70) \cup (97..102)

ISOCT(c) == c \in 48..55

\* The value of a digit; of a letter, its distance from 'a' or 'A' plus ten.
TODIGIT(c) ==
    IF ISDIGIT(c) THEN c - 48
    ELSE IF c \in 65..90 THEN c - 55
    ELSE c - 87

-----------------------------------------------------------------------------
(* The lexer at work on one token: the active stream s, the scratch token  *)
(* (its spaces sp and begin_of_line bol, which no scan resets, its literal *)
(* cs and its location loc), the diagnostics emitted and how the run goes: *)
(* "ok", "crashed" on a failed assertion, "hung" in a loop without end.    *)
(* got counts the characters taken from the reader, less those put back.   *)

ZeroLoc == [line |-> 0, column |-> 0, row |-> 0]

\* The value of the one element of a set: Only({e : x \in {v}}) is e for the
\* value of v, computed once.
Only(S) == CHOOSE x \in S : TRUE

LexState(s, t) ==
    [s |-> s, sp |-> t.spaces, bol |-> t.bol, cs |-> << >>, loc |-> ZeroLoc,
     diags |-> 0, st |-> "ok", got |-> 0]

\* reader_get on the active stream
r_get(L0) ==
    Only({[L |-> [L EXCEPT !.s = r.s, !.got = IF r.ch = EOF THEN @ ELSE @ + 1],
           ch |-> r.ch] :
            <<L, r>> \in {<<L0, stream_next(L0.s)>>}})

\* reader_get when the character is not looked at
r_skip(L) == r_get(L).L

\* reader_peek, and so reader_test and the condition of reader_try
r_peek(L) == stream_peek(L.s)

\* reader_unget
r_unget(L, ch) ==
    IF ch = EOF \/ ch = NUL
    THEN [L EXCEPT !.st = "crashed"]
    ELSE [L EXCEPT !.s = stream_push(@, ch), !.got = @ - 1]

\* cstring_cat_ch on the literal of the scratch token
cat_ch(L, ch) == [L EXCEPT !.cs = Append(@, ch % 256)]

\* ERRORF and WARNINGF
diag(L) == [L EXCEPT !.diags = @ + 1]

\* __lexer_mark_loc__ and __lexer_remark_loc__
mark_loc(L0) ==
    Only({[L EXCEPT !.loc = [line |-> L.s.line, column |-> L.s.column,
                             row |-> L.s.line_note]] : L \in {L0}})

\* __lexer_make_token__: token_dup of the scratch token, then token_init of it.
\* lexer.c names the literal cs and the count of white space spaces, token.c
\* names them literals and leading_space; token.h is not part of the sources.
\* They are one field each here, as a token has one literal and one count.
make_token(L0, type) ==
    Only({[L |-> [L EXCEPT !.cs = << >>, !.loc = ZeroLoc],
           tok |-> [type |-> type, cs |-> L.cs, line |-> L.loc.line,
                    column |-> L.loc.column, row |-> L.loc.row,
                    bol |-> L.bol, spaces |-> L.sp]] : L \in {L0}})

\* a scan that ends in a failed assertion or returns NULL
no_token(L, st) == [L |-> [L EXCEPT !.st = st], tok |-> NullTok]

\* __lexer_skip_white_space__: the loop; the caller tests spaces > 0
RECURSIVE lexer_skip_white_space(_)
lexer_skip_white_space(L0) ==
    Only({IF ~ISSPACE(r_peek(L)) \/ r_peek(L) = LF
          THEN L
          ELSE lexer_skip_white_space([r_skip(L) EXCEPT !.sp = @ + 1]) : L \in {L0}})

\* __lexer_skip_comment__ after "//": up to the line-feed, which stays
RECURSIVE skip_line_comment(_)
skip_line_comment(L0) ==
    Only({IF r_peek(L) = LF THEN L
          ELSE IF r_peek(L) = EOF THEN [L EXCEPT !.st = "hung"]
          ELSE skip_line_comment(r_skip(L)) : L \in {L0}})

\* __lexer_skip_comment__ after "/*": the reader never becomes empty, so the
\* loop ends at "*/" only.
RECURSIVE skip_block_comment(_)
skip_block_comment(L0) ==
    Only({IF g.ch = EOF THEN [g.L EXCEPT !.st = "hung"]
          ELSE IF g.ch = 42 /\ r_peek(g.L) = 47 THEN r_skip(g.L)
          ELSE skip_block_comment(g.L) : g \in {r_get(L0)}})

\* __lexer_skip_comment__
lexer_skip_comment(L0) ==
    Only({IF r_peek(L) = 47 THEN skip_line_comment(r_skip(L))
          ELSE IF r_peek(L) = 42 THEN skip_block_comment(r_skip(L))
          ELSE [L EXCEPT !.st = "crashed"] : L \in {L0}})

VALID_SIGN(c, prevc) == c \in {43, 45} /\ prevc \in {101, 69, 112, 80}

RECURSIVE number_loop(_, _)
number_loop(L0, prev) ==
    Only({IF ISIDNUM(ch) \/ ch = 46 \/ VALID_SIGN(ch, prev) \/ ch = 39
          THEN number_loop(r_skip(cat_ch(L, ch)), ch)
          ELSE L : <<L, ch>> \in {<<L0, r_peek(L0)>>}})

\* __lexer_parse_number__
lexer_parse_number(L, ch) ==
    make_token(number_loop(cat_ch(L, ch), -1), "TOKEN_NUMBER")

\* b + d in 32 bits, as the two's complement int it reads as
add32(b, d) ==
    IF d >= 0 /\ b > 2147483647 - d
    THEN ((b - 2147483647) - 1) + ((d - 2147483647) - 1)
    ELSE IF d < 0 /\ b < (-2147483647 - 1) - d
    THEN (((b + 2147483647) + 1) + d) + 2147483647 + 1
    ELSE b + d

\* (v << 4) + d in 32 bits; an unsigned int and the int it converts to hold
\* the same bits.
shl4_add(v, d) ==
    LET lo == v % 268435456
    IN  add32(IF lo >= 134217728
              THEN ((lo - 134217728) * 16 - 2147483647) - 1
              ELSE lo * 16, d)

RECURSIVE hex_loop(_, _)
hex_loop(L0, hex0) ==
    Only({IF ISHEX(r_peek(L))
          THEN hex_loop(r_skip(L), shl4_add(hex, TODIGIT(r_peek(L))))
          ELSE [L |-> L, ch |-> hex] : <<L, hex>> \in {<<L0, hex0>>}})

\* __lexer_parse_hex_escaped__
lexer_parse_hex_escaped(L0) ==
    Only({hex_loop(IF ISHEX(r_peek(L)) THEN L ELSE diag(L), 0) : L \in {L0}})

\* an octal escape of one digit only
lexer_parse_oct_escaped_one(L0, ch) == [L |-> L0, ch |-> TODIGIT(ch)]

\* __lexer_parse_oct_escaped__
lexer_parse_oct_escaped(L0, ch) ==
    Only({LET o1 == TODIGIT(ch)
              c2 == r_peek(L)
              o2 == o1 * 8 + TODIGIT(c2)
              c3 == r_peek(L2)
          IN  IF ~ISOCT(c2) THEN [L |-> L, ch |-> o1]
              ELSE IF ~ISOCT(c3) THEN [L |-> L2, ch |-> o2]
              ELSE [L |-> r_skip(L2), ch |-> o2 * 8 + TODIGIT(c3)] :
            <<L, L2>> \in {<<L0, r_skip(L0)>>}})

RECURSIVE unc_loop(_, _, _, _)
unc_loop(L0, i, len, u0) ==
    IF i < len
    THEN Only({unc_loop(IF ISHEX(g.ch) THEN g.L ELSE diag(g.L), i + 1, len,
                        shl4_add(u, TODIGIT(g.ch))) :
                 <<g, u>> \in {<<r_get(L0), u0>>}})
    ELSE [L |-> L0, ch |-> u0]

\* __lexer_parse_unc__
lexer_parse_unc(L, len) == unc_loop(mark_loc(L), 0, len, 0)

\* The switch of __lexer_parse_escaped__ on the character ch it got.
escaped_switch(L, ch) ==
    CASE ch \in {39, 34, 63, BSL} -> [L |-> L, ch |-> ch]
      [] ch = 97 -> [L |-> L, ch |-> 7]
      [] ch = 98 -> [L |-> L, ch |-> 8]
      [] ch = 102 -> [L |-> L, ch |-> 12]
      [] ch = 110 -> [L |-> L, ch |-> 10]
      [] ch = 114 -> [L |-> L, ch |-> 13]
      [] ch = 116 -> [L |-> L, ch |-> 9]
      [] ch = 118 -> [L |-> L, ch |-> 11]
      [] ch \in {101, 69} -> [L |-> L, ch |-> 27]
      [] ch = 120 -> lexer_parse_hex_escaped(L)
      [] ch = 117 -> lexer_parse_unc(L, 4)
      [] ch = 85 -> lexer_parse_unc(L, 8)
      [] ch \in 48..55 -> lexer_parse_oct_escaped(L, ch)
      [] OTHER -> [L |-> diag(L), ch |-> ch]

\* __lexer_parse_escaped__
lexer_parse_escaped(L0) ==
    Only({escaped_switch(g.L, g.ch) : g \in {r_get(mark_loc(L0))}})

\* __lexer_is_unc__
lexer_is_unc(L, ch) == ch = BSL /\ r_peek(L) \in {117, 85}

\* cstring_append_utf8 takes the int as a uint32_t and returns NULL for a rune
\* of 0x200000 or more.
utf8_fits(ch) == ch >= 0 /\ ch < 2097152

\* an encoder whose three-byte form drops the bits above the low twelve
utf8_bytes_low12(rune) ==
    IF rune < 128 THEN <<rune>>
    ELSE IF rune < 2048
    THEN <<(192 + rune \div 64) % 256, 128 + (rune % 64)>>
    ELSE IF rune < 65536
    THEN <<224, 128 + ((rune \div 64) % 64), 128 + (rune % 64)>>
    ELSE <<(240 + rune \div 262144) % 256, 128 + ((rune \div 4096) % 64),
           128 + ((rune \div 64) % 64), 128 + (rune % 64)>>

\* cstring_append_utf8: the bytes it appends
utf8_bytes(rune) ==
    IF rune < 128 THEN <<rune>>
    ELSE IF rune < 2048
    THEN <<(192 + rune \div 64) % 256, 128 + (rune % 64)>>
    ELSE IF rune < 65536
    THEN <<(224 + rune \div 4096) % 256, 128 + ((rune \div 64) % 64), 128 + (rune % 64)>>
    ELSE <<(240 + rune \div 262144) % 256, 128 + ((rune \div 4096) % 64),
           128 + ((rune \div 64) % 64), 128 + (rune % 64)>>

cstring_append_utf8(L, ch) == [L EXCEPT !.cs = @ \o utf8_bytes(ch)]

\* What a literal loop does with a backslash: e is the escape parsed after it,
\* isunc whether a universal character name began there.  null: the lexer
\* returns NULL.
escaped_into(e, isunc) ==
    IF isunc
    THEN IF utf8_fits(e.ch)
         THEN [L |-> cstring_append_utf8(e.L, e.ch), null |-> FALSE]
         ELSE [L |-> e.L, null |-> TRUE]
    ELSE [L |-> cat_ch(e.L, e.ch), null |-> FALSE]

\* The loop of __lexer_parse_string__: ch is the character that ended it.
RECURSIVE string_loop(_)
string_loop(L0) ==
    Only({IF g.ch \in {34, LF, EOF}
          THEN [L |-> g.L, ch |-> g.ch, null |-> FALSE]
          ELSE IF g.ch = BSL
          THEN Only({IF a.null
                     THEN [L |-> a.L, ch |-> g.ch, null |-> TRUE]
                     ELSE string_loop(a.L) :
                       a \in {escaped_into(lexer_parse_escaped(g.L),
                                           lexer_is_unc(g.L, g.ch))}})
          ELSE string_loop(cat_ch(g.L, g.ch)) : g \in {r_get(L0)}})

ENCODING_NONE == "none"

StringType(ent) ==
    CASE ent = "char16" -> "TOKEN_CONSTANT_STRING16"
      [] ent = "char32" -> "TOKEN_CONSTANT_STRING32"
      [] ent = "utf8" -> "TOKEN_CONSTANT_UTF8STRING"
      [] ent = "wchar" -> "TOKEN_CONSTANT_WSTRING"
      [] OTHER -> "TOKEN_CONSTANT_STRING"

\* __lexer_parse_string__
lexer_parse_string(L0, ent) ==
    Only({IF r.null
          THEN no_token(r.L, "ok")
          ELSE make_token(IF r.ch # 34 THEN diag(r.L) ELSE r.L, StringType(ent)) :
            r \in {string_loop(L0)}})

\* The loop of __lexer_parse_character__: after the first character the rest,
\* up to the quote, is skipped.
RECURSIVE character_loop(_, _)
character_loop(L0, parsed) ==
    Only({IF g.ch \in {39, LF, EOF}
          THEN [L |-> g.L, ch |-> g.ch, parsed |-> parsed, null |-> FALSE]
          ELSE IF parsed
          THEN character_loop(g.L, TRUE)
          ELSE IF g.ch = BSL
          THEN Only({IF a.null
                     THEN [L |-> a.L, ch |-> g.ch, parsed |-> parsed, null |-> TRUE]
                     ELSE character_loop(a.L, TRUE) :
                       a \in {escaped_into(lexer_parse_escaped(g.L),
                                           lexer_is_unc(g.L, g.ch))}})
          ELSE character_loop(cat_ch(g.L, g.ch), TRUE) : g \in {r_get(L0)}})

CharacterType(ent) ==
    CASE ent = "char16" -> "TOKEN_CONSTANT_CHAR16"
      [] ent = "char32" -> "TOKEN_CONSTANT_CHAR32"
      [] ent = "utf8" -> "TOKEN_CONSTANT_UTF8CHAR"
      [] ent = "wchar" -> "TOKEN_CONSTANT_WCHAR"
      [] OTHER -> "TOKEN_CONSTANT_CHAR"

\* a character constant that may be empty
lexer_parse_character_quiet(L0, ent) ==
    Only({IF r.null
          THEN no_token(r.L, "ok")
          ELSE make_token(IF r.ch # 39 THEN diag(r.L) ELSE r.L, CharacterType(ent)) :
            r \in {character_loop(L0, FALSE)}})

\* __lexer_parse_character__
lexer_parse_character(L0, ent) ==
    Only({IF r.null
          THEN no_token(r.L, "ok")
          ELSE make_token(IF r.parsed
                          THEN (IF r.ch # 39 THEN diag(r.L) ELSE r.L)
                          ELSE diag(IF r.ch # 39 THEN diag(r.L) ELSE r.L),
                          CharacterType(ent)) :
            r \in {character_loop(L0, FALSE)}})

\* The loop of __lexer_parse_identifier__: ch is the character that ended it.
RECURSIVE identifier_loop(_)
identifier_loop(L0) ==
    Only({IF ISIDNUM(g.ch) \/ g.ch = 36 \/ g.ch \in 128..253
          THEN identifier_loop(cat_ch(g.L, g.ch))
          ELSE IF lexer_is_unc(g.L, g.ch)
          THEN Only({IF a.null
                     THEN [L |-> a.L, ch |-> g.ch, null |-> TRUE]
                     ELSE identifier_loop(a.L) :
                       a \in {escaped_into(lexer_parse_escaped(g.L), TRUE)}})
          ELSE [L |-> g.L, ch |-> g.ch, null |-> FALSE] : g \in {r_get(L0)}})

\* an identifier that keeps the character that ended it
lexer_parse_identifier_keep(L0) ==
    Only({IF r.null
          THEN no_token(r.L, "ok")
          ELSE make_token(r.L, "TOKEN_IDENTIFIER") :
            r \in {identifier_loop(L0)}})

\* __lexer_parse_identifier__
lexer_parse_identifier(L0) ==
    Only({IF r.null
          THEN no_token(r.L, "ok")
          ELSE make_token(r_unget(r.L, r.ch), "TOKEN_IDENTIFIER") :
            r \in {identifier_loop(L0)}})

\* an encoding that takes U for u
lexer_parse_encoding_U16(L, ch) ==
    CASE ch = 117 -> IF r_peek(L) = 56
                     THEN [L |-> r_skip(L), ent |-> "utf8"]
                     ELSE [L |-> L, ent |-> "char16"]
      [] ch = 85 -> [L |-> L, ent |-> "char16"]
      [] OTHER -> [L |-> L, ent |-> "wchar"]

\* __lexer_parse_encoding__
lexer_parse_encoding(L, ch) ==
    CASE ch = 117 -> IF r_peek(L) = 56
                     THEN [L |-> r_skip(L), ent |-> "utf8"]
                     ELSE [L |-> L, ent |-> "char16"]
      [] ch = 85 -> [L |-> L, ent |-> "char32"]
      [] OTHER -> [L |-> L, ent |-> "wchar"]

\* return __lexer_make_token__(lexer, reader_try(lexer->reader, c) ? hit : miss)
try_token(L, c, hit, miss) ==
    IF r_peek(L) = c THEN make_token(r_skip(L), hit) ELSE make_token(L, miss)

\* The switch of lexer_scan on the character ch it got.
scan_switch(L, ch) ==
    CASE ch = LF -> make_token(L, "TOKEN_NEW_LINE")
      [] ch = 91 -> make_token(L, "TOKEN_L_SQUARE")
      [] ch = 93 -> make_token(L, "TOKEN_R_SQUARE")
      [] ch = 40 -> make_token(L, "TOKEN_L_PAREN")
      [] ch = 41 -> make_token(L, "TOKEN_R_PAREN")
      [] ch = 123 -> make_token(L, "TOKEN_L_BRACE")
      [] ch = 125 -> make_token(L, "TOKEN_R_BRACE")
      [] ch = 46 ->
            IF ISDIGIT(r_peek(L)) THEN lexer_parse_number(L, ch)
            ELSE IF r_peek(L) = 46
            THEN IF r_peek(r_skip(L)) = 46
                 THEN make_token(r_skip(r_skip(L)), "TOKEN_ELLIPSIS")
                 ELSE make_token(r_unget(r_skip(L), 46), "TOKEN_PERIOD")
            ELSE make_token(L, "TOKEN_PERIOD")
      [] ch = 38 ->
            IF r_peek(L) = 38 THEN make_token(r_skip(L), "TOKEN_AMPAMP")
            ELSE try_token(L, 61, "TOKEN_AMPEQUAL", "TOKEN_AMP")
      [] ch = 42 -> try_token(L, 61, "TOKEN_STAREQUAL", "TOKEN_STAR")
      [] ch = 43 ->
            IF r_peek(L) = 43 THEN make_token(r_skip(L), "TOKEN_PLUSPLUS")
            ELSE try_token(L, 61, "TOKEN_PLUSEQUAL", "TOKEN_PLUS")
      [] ch = 45 ->
            IF r_peek(L) = 62 THEN make_token(r_skip(L), "TOKEN_ARROW")
            ELSE IF r_peek(L) = 45 THEN make_token(r_skip(L), "TOKEN_MINUSMINUS")
            ELSE try_token(L, 61, "TOKEN_MINUSEQUAL", "TOKEN_MINUS")
      [] ch = 126 -> make_token(L, "TOKEN_TILDE")
      [] ch = 33 -> try_token(L, 61, "TOKEN_EXCLAIM", "TOKEN_EXCLAIMEQUAL")
      [] ch = 47 ->
            IF r_peek(L) = 47 \/ r_peek(L) = 42
            THEN make_token(lexer_skip_comment(L), "TOKEN_COMMENT")
            ELSE try_token(L, 61, "TOKEN_SLASHEQUAL", "TOKEN_SLASH")
      [] ch = 37 ->
            IF r_peek(L) = 61 THEN make_token(r_skip(L), "TOKEN_PERCENTEQUAL")
            ELSE IF r_peek(L) = 62 THEN make_token(r_skip(L), "TOKEN_R_BRACE")
            ELSE IF r_peek(L) = 58
            THEN LET L1 == r_skip(L)
                 IN  IF r_peek(L1) = 37
                     THEN IF r_peek(r_skip(L1)) = 58
                          THEN make_token(r_skip(r_skip(L1)), "TOKEN_HASHHASH")
                          ELSE make_token(r_unget(r_skip(L1), 37), "TOKEN_HASH")
                     ELSE make_token(L1, "TOKEN_HASH")
            ELSE make_token(L, "TOKEN_PERCENT")
      [] ch = 60 ->
            IF r_peek(L) = 60
            THEN try_token(r_skip(L), 61, "TOKEN_LESSLESSEQUAL", "TOKEN_LESSLESS")
            ELSE IF r_peek(L) = 61 THEN make_token(r_skip(L), "TOKEN_LESSEQUAL")
            ELSE IF r_peek(L) = 58 THEN make_token(r_skip(L), "TOKEN_L_SQUARE")
            ELSE try_token(L, 37, "TOKEN_L_BRACE", "TOKEN_LESS")
      [] ch = 62 ->
            IF r_peek(L) = 62
            THEN try_token(r_skip(L), 61, "TOKEN_GREATERGREATEREQUAL",
                           "TOKEN_GREATERGREATER")
            ELSE try_token(L, 61, "TOKEN_GREATEREQUAL", "TOKEN_GREATER")
      [] ch = 94 -> try_token(L, 61, "TOKEN_CARETEQUAL", "TOKEN_CARET")
      [] ch = 124 ->
            IF r_peek(L) = 124 THEN make_token(r_skip(L), "TOKEN_PIPEPIPE")
            ELSE try_token(L, 61, "TOKEN_PIPEEQUAL", "TOKEN_PIPE")
      [] ch = 63 -> make_token(L, "TOKEN_QUESTION")
      [] ch = 58 -> try_token(L, 62, "TOKEN_R_SQUARE", "TOKEN_COLON")
      [] ch = 59 -> make_token(L, "TOKEN_SEMI")
      [] ch = 61 -> try_token(L, 61, "TOKEN_EQUALEQUAL", "TOKEN_EQUAL")
      [] ch = 44 -> make_token(L, "TOKEN_COMMA")
      [] ch = 35 -> try_token(L, 35, "TOKEN_HASHHASH", "TOKEN_HASH")
      [] ISDIGIT(ch) -> lexer_parse_number(L, ch)
      [] ch \in {117, 85, 76} ->
            LET e == lexer_parse_encoding(L, ch)
            IN  IF r_peek(e.L) = 34 THEN lexer_parse_string(r_skip(e.L), e.ent)
                ELSE IF r_peek(e.L) = 39 THEN lexer_parse_character(r_skip(e.L), e.ent)
                ELSE lexer_parse_identifier(r_unget(e.L, ch))
      [] ch = 39 -> lexer_parse_character(L, ENCODING_NONE)
      [] ch = 34 -> lexer_parse_string(L, ENCODING_NONE)
      [] ch = BSL ->
            IF r_peek(L) = 117 \/ r_peek(L) = 85
            THEN lexer_parse_identifier(L)
            ELSE make_token(L, "TOKEN_BACKSLASH")
      [] ch = EOF -> make_token(L, "TOKEN_END")
      [] OTHER ->
            IF ISALPHA(ch) \/ ch \in 128..253 \/ ch = 95 \/ ch = 36
            THEN lexer_parse_identifier(r_unget(L, ch))
            ELSE no_token(L, "crashed")

\* lexer_scan over the active stream
lexer_scan(L0) ==
    Only({IF L.sp > 0
          THEN make_token(L, "TOKEN_SPACE")
          ELSE Only({scan_switch(g.L, g.ch) : g \in {r_get(L)}}) :
            L \in {lexer_skip_white_space(mark_loc(L0))}})

-----------------------------------------------------------------------------
(* array.c is not part of the sources.  A stash frame is the array that    *)
(* __lexer_make_stash__ creates: nelts elements of TokenStride words each, *)
(* over memory nothing initialised.  w holds the words written so far and  *)
(* every other word reads as junk, whatever the allocation left there.     *)

\* A token pointer that points nowhere sensible.
WildTok ==
    [type |-> "WILD", cs |-> << >>, line |-> 0, column |-> 0, row |-> 0,
     bol |-> FALSE, spaces |-> 0]

JunkPointers == {NullTok, WildTok}

\* array_create_n(sizeof(struct token_s), 12)
array_create_n(junk) == [nelts |-> 0, w |-> << >>, junk |-> junk]

array_length(a) == a.nelts

\* array_push: the element it hands out is the one after the last
array_push(a) == [a EXCEPT !.nelts = @ + 1]

\* the word at which element i of the array starts
array_at(a, i) == i * TokenStride

\* array_pop: the last element leaves the array.  Its words are dropped from
\* w: no read reaches them before array_push hands them out again and the
\* caller writes them.
array_pop(a) ==
    IF a.nelts > 0
    THEN [a EXCEPT !.nelts = @ - 1,
                   !.w = [j \in {i \in DOMAIN a.w : i < array_at(a, a.nelts - 1)} |-> a.w[j]]]
    ELSE a

\* array_prototype(a, token_t)[i]: word i of the memory read as a token pointer
array_prototype(a, i) == IF i \in DOMAIN a.w THEN a.w[i] ELSE a.junk

\* *item = tok, for the item that starts at word i
store(a, i, t) ==
    [a EXCEPT !.w = [j \in (DOMAIN a.w) \cup {i} |-> IF j = i THEN t ELSE a.w[j]]]

\* a lookup of the active frame that takes the oldest frame
lexer_last_snapshot_first(snaps) == 1

\* __lexer_last_snapshot__: the index of the frame; the caller checked Len > 0
lexer_last_snapshot(snaps) == Len(snaps)

\* The loop of lexer_next: n counts the tokens it threw away.  A scan that
\* returns a space or a comment and changes nothing will do so for ever.
RECURSIVE next_loop(_, _)
next_loop(L0, n) ==
    Only({IF r.L.st # "ok" THEN r
          ELSE IF r.tok = NullTok THEN no_token(r.L, "crashed")
          ELSE IF r.tok.type \in {"TOKEN_SPACE", "TOKEN_COMMENT"}
          THEN IF r.L = L
               THEN no_token(r.L, "hung")
               ELSE next_loop([r.L EXCEPT !.diags = 0], n + 1)
          ELSE [L |-> r.L, tok |-> [r.tok EXCEPT !.spaces = n]] :
            <<L, r>> \in {<<L0, lexer_scan(L0)>>}})

\* lexer_next in a lexer with the frames snaps, over the reader (strs, lst)
\* and with the scratch token tk.
lexer_next_of(snaps, strs, lst, tk) ==
    LET same == [st |-> "ok", snaps |-> snaps, strs |-> strs, tk |-> tk,
                 tok |-> NullTok, diags |-> 0]
    IN  IF Len(snaps) = 0
        THEN [same EXCEPT !.st = "crashed"]
        ELSE LET k == lexer_last_snapshot(snaps)
                 tokens == snaps[k]
             IN  IF array_length(tokens) > 0
                 THEN [same EXCEPT !.snaps = [snaps EXCEPT ![k] = array_pop(tokens)],
                                   !.tok = array_prototype(tokens, array_length(tokens) - 1)]
                 ELSE IF lst = 0
                 THEN [same EXCEPT !.st = "crashed"]
                 ELSE Only({[st |-> r.L.st,
                             snaps |-> snaps,
                             strs |-> [strs EXCEPT ![lst] = r.L.s],
                             tk |-> [spaces |-> r.L.sp, bol |-> r.L.bol],
                             tok |-> IF r.L.st = "ok"
                                     THEN [r.tok EXCEPT !.bol = begin_of_line]
                                     ELSE NullTok,
                             diags |-> r.L.diags] :
                              <<begin_of_line, r>> \in
                                  {<<strs[lst].line = 1,
                                     next_loop(LexState(strs[lst], tk), 0)>>}})

\* lexer_untread on the frames snaps, after its assertions
lexer_untread_of(snaps, t) ==
    LET k == Len(snaps)
        tail == snaps[k]
    IN  [snaps EXCEPT ![k] = store(array_push(tail), array_at(tail, array_length(tail)), t)]

IsToken(t) == t \notin JunkPointers

HistReset ==
    /\ out' = << >>
    /\ pure' = FALSE
    /\ trans' = << >>
    /\ how' = "none"
    /\ synth' = 0
    /\ ended' = {}

\* The operation o ends the run: st is "crashed" or "hung".
LexStop(o, st) ==
    /\ status' = st
    /\ op' = o
    /\ UNCHANGED <<streams, last, ret, retb, hist, lexv, scanv>>

\* The operation o returns t and leaves the lexer as r says.
LexReturn(o, r, snaps, t) ==
    /\ op' = o
    /\ snapshots' = snaps
    /\ streams' = r.strs
    /\ tok' = r.tk
    /\ rtok' = t
    /\ diags' = r.diags
    /\ HistReset
    /\ destroyed' = {}
    /\ UNCHANGED <<last, status, ret, retb, scanv>>

\* lexer_next; the caller owns the token it returns
lexer_next ==
    /\ status = "ok"
    /\ (IF last = 0 THEN TRUE ELSE Sound(Active))
    /\ \E r \in {lexer_next_of(snapshots, streams, last, tok)} :
          IF r.st # "ok"
          THEN LexStop("next", r.st)
          ELSE /\ LexReturn("next", r, r.snaps, r.tok)
               /\ held' = IF IsToken(r.tok) THEN held \cup {r.tok} ELSE held
               /\ Cardinality(held') <= MaxHeld

\* lexer_peek.  Reading the type of a token through a wild pointer may end the
\* run, or find TOKEN_END there, or anything else.
lexer_peek ==
    /\ status = "ok"
    /\ (IF last = 0 THEN TRUE ELSE Sound(Active))
    /\ \E r \in {lexer_next_of(snapshots, streams, last, tok)} :
          LET back == lexer_untread_of(r.snaps, r.tok)
          IN  IF r.st # "ok"
              THEN LexStop("peek", r.st)
              ELSE IF r.tok = NullTok
              THEN LexStop("peek", "crashed")
              ELSE IF r.tok = WildTok
              THEN \/ LexStop("peek", "crashed")
                   \/ LexReturn("peek", r, r.snaps, r.tok) /\ UNCHANGED held
                   \/ LexReturn("peek", r, back, r.tok) /\ UNCHANGED held
              ELSE IF r.tok.type = "TOKEN_END"
              THEN /\ LexReturn("peek", r, r.snaps, r.tok)
                   /\ held' = held \cup {r.tok}
                   /\ Cardinality(held') <= MaxHeld
              ELSE LexReturn("peek", r, back, r.tok) /\ UNCHANGED held

\* lexer_untread of a token the caller owns; the stash owns it from then on
lexer_untread(t) ==
    /\ status = "ok"
    /\ t \in held
    /\ IF t.type = "TOKEN_END" \/ Len(snapshots) = 0
       THEN LexStop("untread", "crashed")
       ELSE /\ array_length(snapshots[Len(snapshots)]) < MaxFrame
            /\ snapshots' = lexer_untread_of(snapshots, t)
            /\ held' = held \ {t}
            /\ retb' = TRUE
            /\ op' = "untread"
            /\ destroyed' = {}
            /\ UNCHANGED <<streams, last, status, ret, hist, tok, rtok, diags, scanv>>

\* lexer_stash: __lexer_make_stash__ on the stack of frames
lexer_stash ==
    /\ status = "ok"
    /\ Len(snapshots) < MaxFrames
    /\ \E junk \in JunkPointers :
          snapshots' = Append(snapshots, array_create_n(junk))
    /\ retb' = TRUE
    /\ op' = "stash"
    /\ destroyed' = {}
    /\ UNCHANGED <<streams, last, status, ret, hist, tok, held, rtok, diags, scanv>>

\* lexer_unstash: array_pop on the stack of frames, and nothing else.  The
\* frame it takes off is not looked into: no token_destroy, no array_destroy.
lexer_unstash ==
    /\ status = "ok"
    /\ IF Len(snapshots) = 0
       THEN LexStop("unstash", "crashed")
       ELSE /\ snapshots' = SubSeq(snapshots, 1, Len(snapshots) - 1)
            /\ destroyed' = {}
            /\ op' = "unstash"
            /\ UNCHANGED <<streams, last, status, ret, retb, hist, tok, held, rtok, diags, scanv>>

\* token_destroy of a token the caller owns
token_destroy(t) ==
    /\ status = "ok"
    /\ t \in held
    /\ held' = held \ {t}
    /\ destroyed' = {t}
    /\ op' = "destroy"
    /\ UNCHANGED <<streams, last, status, ret, retb, hist, snapshots, tok, rtok, diags, scanv>>

\* token_create leaves begin_of_line and spaces of the scratch token as the
\* allocation gave them: zero, or something else.
UninitTok == {[spaces |-> 0, bol |-> FALSE], [spaces |-> 1, bol |-> TRUE]}

\* lexer_create over a fresh reader
lexer_create ==
    /\ \E junk \in JunkPointers : snapshots = <<array_create_n(junk)>>
    /\ tok \in UninitTok
    /\ held = {}
    /\ rtok = NullTok
    /\ diags = 0
    /\ destroyed = {}

LexSources ==
    {<<CH_a, PLUS>>, <<PLUS, LF, CH_a>>, <<CH_a, SP, PLUS>>, << >>}

InitLexer == reader_create /\ lexer_create /\ twin = NoTwin /\ NoString

NextLexer ==
    \/ \E s \in LexSources : reader_push(STREAM_TYPE_STRING, s, 1)
    \/ lexer_next
    \/ lexer_peek
    \/ \E t \in held : lexer_untread(t)
    \/ lexer_stash
    \/ lexer_unstash
    \/ \E t \in held : token_destroy(t)

SpecLexer == InitLexer /\ [][NextLexer]_vars

-----------------------------------------------------------------------------
(* The scanner on its own: a source is pushed and the client calls         *)
(* lexer_scan for one raw token after the other.                           *)

MaxScanLen == 3
MaxToks == 6

ScanAlphabet == {CH_a, SP, LF, PLUS, 47, 42, 34, BSL}

\* token_dictionary: the operators and digraphs with more than one form, each
\* spelling with the kind of the token it is.
Spellings ==
    {<<(<<38>>), "TOKEN_AMP">>, <<(<<38, 38>>), "TOKEN_AMPAMP">>,
     <<(<<38, 61>>), "TOKEN_AMPEQUAL">>,
     <<(<<124>>), "TOKEN_PIPE">>, <<(<<124, 124>>), "TOKEN_PIPEPIPE">>,
     <<(<<124, 61>>), "TOKEN_PIPEEQUAL">>,
     <<(<<43>>), "TOKEN_PLUS">>, <<(<<43, 43>>), "TOKEN_PLUSPLUS">>,
     <<(<<43, 61>>), "TOKEN_PLUSEQUAL">>,
     <<(<<45>>), "TOKEN_MINUS">>, <<(<<45, 45>>), "TOKEN_MINUSMINUS">>,
     <<(<<45, 61>>), "TOKEN_MINUSEQUAL">>, <<(<<45, 62>>), "TOKEN_ARROW">>,
     <<(<<42>>), "TOKEN_STAR">>, <<(<<42, 61>>), "TOKEN_STAREQUAL">>,
     <<(<<47>>), "TOKEN_SLASH">>, <<(<<47, 61>>), "TOKEN_SLASHEQUAL">>,
     <<(<<37>>), "TOKEN_PERCENT">>, <<(<<37, 61>>), "TOKEN_PERCENTEQUAL">>,
     <<(<<94>>), "TOKEN_CARET">>, <<(<<94, 61>>), "TOKEN_CARETEQUAL">>,
     <<(<<60>>), "TOKEN_LESS">>, <<(<<60, 60>>), "TOKEN_LESSLESS">>,
     <<(<<60, 60, 61>>), "TOKEN_LESSLESSEQUAL">>, <<(<<60, 61>>), "TOKEN_LESSEQUAL">>,
     <<(<<62>>), "TOKEN_GREATER">>, <<(<<62, 62>>), "TOKEN_GREATERGREATER">>,
     <<(<<62, 62, 61>>), "TOKEN_GREATERGREATEREQUAL">>,
     <<(<<62, 61>>), "TOKEN_GREATEREQUAL">>,
     <<(<<61>>), "TOKEN_EQUAL">>, <<(<<61, 61>>), "TOKEN_EQUALEQUAL">>,
     <<(<<33>>), "TOKEN_EXCLAIM">>, <<(<<33, 61>>), "TOKEN_EXCLAIMEQUAL">>,
     <<(<<60, 58>>), "TOKEN_L_SQUARE">>, <<(<<58, 62>>), "TOKEN_R_SQUARE">>,
     <<(<<60, 37>>), "TOKEN_L_BRACE">>, <<(<<37, 62>>), "TOKEN_R_BRACE">>,
     <<(<<37, 58>>), "TOKEN_HASH">>, <<(<<37, 58, 37, 58>>), "TOKEN_HASHHASH">>}

\* Sources longer than MaxScanLen that the scanner's cases need: a longer
\* operator that does not complete, literals with an encoding prefix or an
\* escape, comments, runs of white space.
ScanTexts ==
    {p[1] : p \in Spellings} \cup
    {<<105, 43, 43>>,                                  \* i++
     <<46, 46, 97>>, <<37, 58, 37, 97>>, <<46, 46, 46>>,
     <<117, 39, 97, 39>>, <<117, 56, 39, 97, 39>>, <<85, 39, 97, 39>>,
     <<76, 39, 97, 39>>, <<39, 97, 39>>,
     <<117, 34, 97, 34>>, <<117, 56, 34, 97, 34>>, <<85, 34, 97, 34>>,
     <<76, 34, 97, 34>>,
     <<34, 92, 110, 34, 43>>,                           \* "\n"+
     <<47, 42, 97, 42, 47, 43>>,                        \* /*a*/+
     <<47, 47, 97, 10, 43>>,                            \* //a LF +
     <<97, 32, 43, 32, 32, 97>>,                        \* a +  a
     <<117, 56, 120>>, <<117, 56>>, <<117, 97>>,        \* u8x  u8  ua
     <<85, 43>>, <<76, 97, 43>>,                        \* U+  La+
     <<92, 117, 48, 48, 101, 57>>,                      \* é
     <<97, 92, 117, 48, 48, 101, 57>>,                  \* aé
     <<97, 92, 85, 48, 48, 48, 48, 48, 48, 101, 57, 97>>,   \* a\U000000e9a
     <<64>>, <<96, 97>>, <<254>>, <<97, 255>>,          \* @  `a  0xFE  a 0xFF
     <<34, 92, 85, 48, 48, 50, 48, 48, 48, 48, 48, 34>>,    \* "\U00200000"
     <<34, 92, 85, 48, 48, 49, 70, 70, 70, 70, 70, 34>>,    \* "\U001FFFFF"
     <<97, 92, 85, 48, 48, 50, 48, 48, 48, 48, 48>>,        \* a\U00200000
     <<39, 92, 117, 122, 122, 122, 122, 39>>,               \* '\uzzzz'
     <<39>>, <<39, 39>>, <<39, 97>>, <<39, 10, 97>>,    \* '  ''  'a  ' LF a
     <<76, 34, 97>>, <<117, 56, 39>>,                   \* L"a  u8'
     <<49, 101, 43, 50>>, <<49, 43, 50>>,               \* 1e+2  1+2
     <<46, 53, 101, 43, 50>>, <<49, 39, 48, 46, 120, 45>>,  \* .5e+2  1'0.x-
     <<49, 36>>, <<49, 200, 80, 45, 49>>,               \* 1$  1 0xC8 P-1
     <<34, 92, 49, 50, 51, 52, 34>>,                    \* "\1234"
     <<34, 92, 49, 56, 34, 43>>, <<34, 92, 48, 34>>,    \* "\18"+  "\0"
     <<34, 92, 55, 55, 55, 34>>,                        \* "\777"
     <<34, 92, 120, 34>>, <<34, 92, 120, 52, 49, 103, 34>>, \* "\x"  "\x41g"
     <<34, 92, 120, 49, 102, 65, 34, 43>>,              \* "\x1fA"+
     <<34, 92, 113, 34>>, <<34, 92, 101, 92, 92, 34>>,  \* "\q"  "\e\\"
     <<34, 92, 39, 92, 63, 34>>,                        \* "\'\?"
     <<34, 92, 116, 92, 118, 92, 102, 34>>,             \* "\t\v\f"
     <<34, 92, 98, 92, 114, 92, 69, 34>>,               \* "\b\r\E"
     <<39, 92, 110, 39>>, <<39, 92, 49, 48, 49, 39, 43>>,   \* '\n'  '\101'+
     <<39, 92, 120, 39>>, <<39, 92, 113, 39>>,          \* '\x'  '\q'
     <<76, 39, 92, 39, 39>>,                            \* L'\''
     <<97, 92, 117, 48, 48>>, <<92, 85>>,               \* a\u00  \U
     <<97, 92, 117, 48, 48, 101, 57, 43>>,              \* aé+
     <<39, 97, 92, 39, 39>>, <<39, 97, 92, 39, 39, 43>>,    \* 'a\''  'a\''+
     <<39, 92, 39, 39, 43>>, <<39, 97, 98, 39, 43>>,    \* '\''+  'ab'+
     <<39, 97, 92, 110, 39>>}                           \* 'a\n'

ScanSources ==
    (UNION {[1..n -> ScanAlphabet] : n \in 0..MaxScanLen}) \cup ScanTexts

\* lexer_scan called by the client, who owns the token it returns.
scan ==
    /\ status = "ok"
    /\ Len(toks) < MaxToks
    /\ IF last = 0
       THEN LexStop("scan", "crashed")
       ELSE /\ Sound(Active)
            /\ \E r \in {lexer_scan(LexState(Active, tok))} :
                  IF r.L.st # "ok"
                  THEN LexStop("scan", r.L.st)
                  ELSE /\ streams' = [streams EXCEPT ![last] = r.L.s]
                       /\ tok' = [spaces |-> r.L.sp, bol |-> r.L.bol]
                       /\ rtok' = r.tok
                       /\ diags' = r.L.diags
                       /\ toks' = Append(toks, r.tok)
                       /\ got' = got + r.L.got
                       /\ op' = "scan"
                       /\ destroyed' = {}
                       /\ HistReset
                       /\ UNCHANGED <<last, status, ret, retb, snapshots, held, twin, strv>>

InitScan == reader_create /\ lexer_create /\ twin = NoTwin /\ NoString

\* Sources that only a file can hold: a string ends at its first NUL.
ScanFiles == {<<97, 0>>, <<97, 0, 43>>}                 \* a NUL  a NUL +

NextScan ==
    \/ \E s \in ScanSources : reader_push(STREAM_TYPE_STRING, s, 1)
    \/ \E s \in ScanFiles : reader_push(STREAM_TYPE_FILE, s, 1)
    \/ scan

SpecScan == InitScan /\ [][NextScan]_vars

-----------------------------------------------------------------------------
(* Two lexers, each over a reader of its own: sources are pushed, scanned  *)
(* and popped on both, in any order.  The second lexer is the record twin: *)
(* whether a source is pushed (on), its stream s, what its scratch token   *)
(* keeps (tk), the token its last scan returned and how its run goes.      *)

MaxSpaces == 2

TwinSources == {<<SP>>, <<PLUS>>}

\* reader_create and lexer_create for the second lexer
twin_create ==
    twin \in {[st |-> "ok", on |-> FALSE, s |-> GarbageSlot, tk |-> t,
               rtok |-> NullTok] : t \in UninitTok}

TwinOnly ==
    UNCHANGED <<streams, last, status, op, ret, retb, hist, lexv, toks, got, strv>>

\* reader_push on the second lexer's reader
twin_push(s) ==
    /\ twin.st = "ok"
    /\ ~twin.on
    /\ twin' = [twin EXCEPT !.on = TRUE, !.s = stream_init(STREAM_TYPE_STRING, s)]
    /\ TwinOnly

\* reader_pop on the second lexer's reader
twin_pop ==
    /\ twin.st = "ok"
    /\ twin.on
    /\ twin' = [twin EXCEPT !.on = FALSE, !.s = GarbageSlot]
    /\ TwinOnly

\* lexer_scan on the second lexer
twin_scan ==
    /\ twin.st = "ok"
    /\ twin.on
    /\ \E r \in {lexer_scan(LexState(twin.s, twin.tk))} :
          /\ r.L.sp <= MaxSpaces
          /\ twin' = IF r.L.st # "ok"
                     THEN [twin EXCEPT !.st = r.L.st]
                     ELSE [twin EXCEPT !.s = r.L.s,
                                       !.tk = [spaces |-> r.L.sp, bol |-> r.L.bol],
                                       !.rtok = r.tok]
    /\ TwinOnly

InitTwin == reader_create /\ lexer_create /\ twin_create /\ NoString

NextTwin ==
    \/ \E s \in TwinSources : reader_push(STREAM_TYPE_STRING, s, 1)
    \/ reader_pop
    \/ scan /\ tok'.spaces <= MaxSpaces
    \/ \E s \in TwinSources : twin_push(s)
    \/ twin_pop
    \/ twin_scan

SpecTwin == InitTwin /\ [][NextTwin]_vars

-----------------------------------------------------------------------------
(* A character buffer in a client's hands.  hdr is its cstring_header_t:   *)
(* length, unused (the headroom) and buffer, the bytes of the allocation,  *)
(* buffer[i + 1] here being buffer[i] there.  cstring.c is not part of the *)
(* sources: a buffer is created and grows as section 4.1 of the            *)
(* specification says.                                                     *)

MaxBuf == 4

\* The bytes a client appends one at a time.
BufBytes == {0, 97}

\* The code points a client appends: the two ends of each range of
\* cstring_append_utf8, U+00E9, and values it rejects; -1 is the int that
\* reads 0xFFFFFFFF as a uint32_t.
Runes ==
    {0, 127, 128, 233, 2047, 2048, 65535, 65536, 2097151, 2097152, -1}

\* What the allocator leaves in bytes nobody wrote; no operation reads them.
JunkByte == 170

Max(a, b) == IF a >= b THEN a ELSE b

\* cstring_new_n(NULL, 0): the empty buffer, its terminating zero and no
\* headroom.
cstring_new_n(data) ==
    [length |-> Len(data), unused |-> 0, buffer |-> data \o <<0>>]

\* cstring_concat_n: the bytes go after the logical ones, and a zero after
\* them; a buffer with too little headroom is moved to one with a payload
\* of max(2 * length, length + request) bytes.
cstring_concat_n(h, data) ==
    LET n == Len(data)
        text == SubSeq(h.buffer, 1, h.length) \o data \o <<0>>
        payload == Max(2 * h.length, h.length + n)
    IN  IF n <= h.unused
        THEN [length |-> h.length + n, unused |-> h.unused - n,
              buffer |-> text \o SubSeq(h.buffer, h.length + n + 2, Len(h.buffer))]
        ELSE [length |-> h.length + n, unused |-> payload - (h.length + n),
              buffer |-> text \o [i \in 1..(payload - (h.length + n)) |-> JunkByte]]

\* a pop that leaves the byte it took where it was
cstring_pop_ch_dirty(h) ==
    IF h.length > 0
    THEN [h |-> [h EXCEPT !.length = @ - 1, !.unused = @ + 1],
          ch |-> h.buffer[h.length]]
    ELSE [h |-> h, ch |-> EOF]

\* cstring_pop_ch
cstring_pop_ch(h) ==
    IF h.length > 0
    THEN [h |-> [h EXCEPT !.buffer[h.length] = 0, !.length = @ - 1, !.unused = @ + 1],
          ch |-> h.buffer[h.length]]
    ELSE [h |-> h, ch |-> EOF]

\* strlen(cs): the index of the first zero byte.  Every buffer has one at
\* index length or before it.
strlen(b) ==
    IF \E i \in 1..Len(b) : b[i] = 0
    THEN (CHOOSE i \in 1..Len(b) : b[i] = 0 /\ \A j \in 1..(i - 1) : b[j] # 0) - 1
    ELSE Len(b)

\* cstring_update_length
cstring_update_length(h) ==
    Only({[h EXCEPT !.unused = @ + (h.length - n), !.length = n] :
            n \in {strlen(h.buffer)}})

\* cstring_clear
cstring_clear(h) ==
    [h EXCEPT !.unused = @ + h.length, !.length = 0, !.buffer[1] = 0]

cstring_create ==
    /\ hdr = cstring_new_n(<< >>)
    /\ cret = [f |-> "new", arg |-> 0, val |-> 0]
    /\ mem = [next |-> 1, live |-> {}, once |-> {}, twice |-> {}, tokens |-> {}]
    /\ NoDict

\* The reader and the lexer stay as they were created.
StringOnly ==
    UNCHANGED <<streams, last, status, op, ret, retb, hist, lexv, toks, got, twin, mem,
                dict, dcli>>

\* cstring_push_ch by the client
push_ch(ch) ==
    /\ hdr.length < MaxBuf
    /\ hdr' = cstring_concat_n(hdr, <<ch>>)
    /\ cret' = [f |-> "push_ch", arg |-> ch, val |-> 0]
    /\ StringOnly

\* cstring_append_utf8 by the client
append_utf8(rune) ==
    /\ IF utf8_fits(rune)
       THEN /\ hdr.length + Len(utf8_bytes(rune)) <= MaxBuf
            /\ hdr' = cstring_concat_n(hdr, utf8_bytes(rune))
            /\ cret' = [f |-> "append_utf8", arg |-> rune, val |-> 1]
       ELSE /\ hdr' = hdr
            /\ cret' = [f |-> "append_utf8", arg |-> rune, val |-> NUL]
    /\ StringOnly

\* cstring_pop_ch by the client
pop_ch ==
    /\ \E r \in {cstring_pop_ch(hdr)} :
          /\ hdr' = r.h
          /\ cret' = [f |-> "pop_ch", arg |-> 0, val |-> r.ch]
    /\ StringOnly

\* cstring_update_length by the client
update_length ==
    /\ hdr' = cstring_update_length(hdr)
    /\ cret' = [f |-> "update_length", arg |-> 0, val |-> 0]
    /\ StringOnly

\* cstring_clear by the client
clear ==
    /\ hdr' = cstring_clear(hdr)
    /\ cret' = [f |-> "clear", arg |-> 0, val |-> 0]
    /\ StringOnly

\* A reader on its own, and a buffer the client created.
InitString ==
    /\ reader_create
    /\ snapshots = << >>
    /\ tok = [spaces |-> 0, bol |-> FALSE]
    /\ held = {}
    /\ rtok = NullTok
    /\ diags = 0
    /\ destroyed = {}
    /\ twin = NoTwin
    /\ cstring_create

NextString ==
    \/ \E ch \in BufBytes : push_ch(ch)
    \/ \E rune \in Runes : append_utf8(rune)
    \/ pop_ch
    \/ update_length
    \/ clear

SpecString == InitString /\ [][NextString]_vars

-----------------------------------------------------------------------------
(* A buffer of UTF-8 that a client casts to UTF-32.  The client takes the  *)
(* buffer the cast returns in place of the one it had.                     *)

\* __count_leading_ones__ of a byte
count_leading_ones(ch) ==
    IF ch < 128 THEN 0 ELSE IF ch < 192 THEN 1 ELSE IF ch < 224 THEN 2
    ELSE IF ch < 240 THEN 3 ELSE IF ch < 248 THEN 4 ELSE IF ch < 252 THEN 5
    ELSE IF ch < 254 THEN 6 ELSE IF ch < 255 THEN 7 ELSE 8

\* __parse_rune__ on the bytes s, of which n may be read
parse_rune(s, n) ==
    LET len == count_leading_ones(s[1])
    IN  IF len = 0 THEN [ok |-> TRUE, rune |-> s[1], rune_size |-> 1]
        ELSE IF len > n THEN [ok |-> FALSE, rune |-> 0, rune_size |-> 0]
        ELSE IF \E i \in 2..len : s[i] \notin 128..191
        THEN [ok |-> FALSE, rune |-> 0, rune_size |-> 0]
        ELSE CASE len = 2 ->
                    [ok |-> TRUE, rune |-> (s[1] % 32) * 64 + (s[2] % 64),
                     rune_size |-> 2]
               [] len = 3 ->
                    [ok |-> TRUE,
                     rune |-> (s[1] % 16) * 4096 + (s[2] % 64) * 64 + (s[3] % 64),
                     rune_size |-> 3]
               [] len = 4 ->
                    [ok |-> TRUE,
                     rune |-> (s[1] % 8) * 262144 + (s[2] % 64) * 4096
                                  + (s[3] % 64) * 64 + (s[4] % 64),
                     rune_size |-> 4]
               [] OTHER -> [ok |-> FALSE, rune |-> 0, rune_size |-> 0]

\* __write32__: two __write16__, each two cstring_push_ch, the low byte first
write32(h, u) ==
    cstring_concat_n(
        cstring_concat_n(
            cstring_concat_n(
                cstring_concat_n(h, <<u % 256>>),
                <<(u \div 256) % 256>>),
            <<(u \div 65536) % 256>>),
        <<(u \div 16777216) % 256>>)

\* The loop of cstring_cast_to_utf32 over the bytes cs: every turn parses at
\* cs itself, with length - i for the count of bytes left.
RECURSIVE cast_loop(_, _, _)
cast_loop(cs, to0, i0) ==
    IF i0 >= Len(cs)
    THEN [null |-> FALSE, to |-> to0]
    ELSE Only({IF ~r.ok
               THEN [null |-> TRUE, to |-> to]
               ELSE cast_loop(cs, write32(to, r.rune), i + r.rune_size) :
                 <<r, to, i>> \in {<<parse_rune(cs, Len(cs) - i0), to0, i0>>}})

\* cstring_cast_to_utf32: to is cstring_new_n(NULL, length * sizeof(uint32_t))
cstring_cast_to_utf32(h) ==
    cast_loop(SubSeq(h.buffer, 1, h.length),
              [length |-> 0, unused |-> 4 * h.length,
               buffer |-> <<0>> \o [k \in 1..(4 * h.length) |-> JunkByte]], 0)

\* cstring_cast_to_utf32 by the client
cast_to_utf32 ==
    /\ hdr.length <= MaxBuf
    /\ \E r \in {cstring_cast_to_utf32(hdr)} :
          IF r.null
          THEN /\ hdr' = hdr
               /\ cret' = [f |-> "cast_to_utf32", arg |-> 0, val |-> NUL]
          ELSE /\ hdr' = r.to
               /\ cret' = [f |-> "cast_to_utf32", arg |-> 0, val |-> 1]
    /\ StringOnly

NextCast ==
    \/ \E rune \in Runes : append_utf8(rune)
    \/ cast_to_utf32
    \/ clear

SpecCast == InitString /\ [][NextCast]_vars

-----------------------------------------------------------------------------
(* Tokens in a client's hands, as objects.  An object is a number, 0 is     *)
(* NULL.  mem.next is the next object the allocator hands out, mem.live the *)
(* objects allocated and not released, mem.once those released once,       *)
(* mem.twice those released again after that, mem.tokens the tokens the    *)
(* client holds.  A token is its struct token_s (self), its literal        *)
(* (literals, and len, whether it holds a character), its location struct  *)
(* (loc) and the two character buffers the location points to (row, fn);   *)
(* of is the token it was duplicated from.                                 *)

MaxObjects == 12

\* pmalloc, and every creation of a character buffer
alloc(m) == [m EXCEPT !.next = @ + 1, !.live = @ \cup {m.next}]

\* pfree, cstring_destroy
release(m, o) ==
    IF o \in m.live
    THEN [m EXCEPT !.live = @ \ {o}, !.once = @ \cup {o}]
    ELSE [m EXCEPT !.twice = @ \cup {o}]

\* token_create, with source_location_create
token_create(m) ==
    [m |-> alloc(alloc(alloc(m))),
     t |-> [self |-> m.next + 2, literals |-> m.next, len |-> 0,
            loc |-> m.next + 1, row |-> 0, fn |-> 0, of |-> 0]]

\* source_location_mark with a line and a name: the location points to them.
\* token.h, where it is, is not part of the sources; the line and the name
\* are character buffers, as source_location_destroy takes them to be.
token_mark_loc(m, t) ==
    [m |-> alloc(alloc(m)),
     t |-> [t EXCEPT !.row = m.next, !.fn = m.next + 1]]

\* source_location_dup
source_location_dup(m, t) ==
    [m |-> alloc(m), loc |-> m.next, row |-> t.row, fn |-> t.fn]

\* token_dup
token_dup(m, t) ==
    Only({[m |-> d.m,
           t |-> [self |-> m1.next, literals |-> IF copy THEN m.next ELSE 0,
                  len |-> IF copy THEN t.len ELSE 0,
                  loc |-> d.loc, row |-> d.row, fn |-> d.fn, of |-> t.self]] :
            <<copy, m1, d>> \in
                {<<c, n, source_location_dup(alloc(n), t)>> :
                    <<c, n>> \in {<<t.literals # 0 /\ t.len # 0,
                                    IF t.literals # 0 /\ t.len # 0 THEN alloc(m) ELSE m>>}}})

\* source_location_destroy
source_location_destroy(m, t) ==
    Only({release(IF t.row # 0 THEN release(m1, t.row) ELSE m1, t.loc) :
            m1 \in {IF t.fn # 0 THEN release(m, t.fn) ELSE m}})

\* token_destroy over the objects
token_free(m, t) ==
    Only({release(source_location_destroy(m1, t), t.self) :
            m1 \in {IF t.literals # 0 THEN release(m, t.literals) ELSE m}})

\* The reader, the lexer and the client's buffer stay as they were created.
TokenOnly ==
    UNCHANGED <<streams, last, status, op, ret, retb, hist, lexv, toks, got, twin,
                hdr, cret, dict, dcli>>

\* token_create by the client
client_create ==
    /\ mem.next + 3 <= MaxObjects + 1
    /\ \E r \in {token_create(mem)} :
          mem' = [r.m EXCEPT !.tokens = @ \cup {r.t}]
    /\ TokenOnly

\* the client appends a character to the literal of a token
client_cat(t) ==
    /\ t.literals # 0
    /\ t.len = 0
    /\ mem' = [mem EXCEPT !.tokens = (@ \ {t}) \cup {[t EXCEPT !.len = 1]}]
    /\ TokenOnly

\* token_mark_loc by the client
client_mark(t) ==
    /\ mem.next + 2 <= MaxObjects + 1
    /\ t.row = 0
    /\ \E r \in {token_mark_loc(mem, t)} :
          mem' = [r.m EXCEPT !.tokens = (@ \ {t}) \cup {r.t}]
    /\ TokenOnly

\* token_dup by the client
client_dup(t) ==
    /\ mem.next + 3 <= MaxObjects + 1
    /\ \E r \in {token_dup(mem, t)} :
          mem' = [r.m EXCEPT !.tokens = @ \cup {r.t}]
    /\ TokenOnly

\* token_destroy by the client
client_destroy(t) ==
    /\ mem' = [token_free(mem, t) EXCEPT !.tokens = @ \ {t}]
    /\ TokenOnly

InitToken ==
    /\ reader_create
    /\ snapshots = << >>
    /\ tok = [spaces |-> 0, bol |-> FALSE]
    /\ held = {}
    /\ rtok = NullTok
    /\ diags = 0
    /\ destroyed = {}
    /\ twin = NoTwin
    /\ NoString

NextToken ==
    \/ client_create
    \/ \E t \in mem.tokens : client_cat(t)
    \/ \E t \in mem.tokens : client_mark(t)
    \/ \E t \in mem.tokens : client_dup(t)
    \/ \E t \in mem.tokens : client_destroy(t)

SpecToken == InitToken /\ [][NextToken]_vars

-----------------------------------------------------------------------------
(* Definitions the properties are stated with *)

HasStream == last # 0 /\ status = "ok" /\ Sound(Active)

\* The characters of a get history before its first end-of-input.
RECURSIVE Delivered(_)
Delivered(q) ==
    IF q = << >> \/ q[1] = EOF THEN << >> ELSE <<q[1]>> \o Delivered(Tail(q))

IsPrefix(a, b) == Len(a) <= Len(b) /\ SubSeq(b, 1, Len(a)) = a

CountLF(q) == Cardinality({i \in 1..Len(q) : q[i] = LF})

\* White space that may stand between a backslash and the end of its line.
RefBlank == {SP, 9, 11, 12}

RECURSIVE RefSkipBlank(_, _)
RefSkipBlank(t, i) ==
    IF i <= Len(t) /\ t[i] \in RefBlank THEN RefSkipBlank(t, i + 1) ELSE i

\* The index after the line terminator that starts at index j of t.
RefAfterTerminator(t, j) ==
    IF t[j] = CR /\ j < Len(t) /\ t[j + 1] = LF THEN j + 2 ELSE j + 1

\* Translation phases 1 and 2 of the bytes of t from index i on: every line
\* terminator becomes one line-feed, a backslash whose line ends after optional
\* white space is deleted with that line end.  With atEnd, a backslash that only
\* white space separates from the end of t becomes, with it, one line-feed.
RECURSIVE RefTransform(_, _, _)
RefTransform(t, i, atEnd) ==
    IF i > Len(t)
    THEN << >>
    ELSE IF t[i] \in {CR, LF}
    THEN <<LF>> \o RefTransform(t, RefAfterTerminator(t, i), atEnd)
    ELSE IF t[i] = BSL
    THEN LET j == RefSkipBlank(t, i + 1)
         IN  IF j > Len(t)
             THEN IF atEnd THEN <<LF>> ELSE <<BSL>> \o RefTransform(t, i + 1, atEnd)
             ELSE IF t[j] \in {CR, LF}
             THEN RefTransform(t, RefAfterTerminator(t, j), atEnd)
             ELSE <<BSL>> \o RefTransform(t, i + 1, atEnd)
    ELSE <<t[i]>> \o RefTransform(t, i + 1, atEnd)

\* A translation unit ends with a line-feed: one is added when it does not.
WithFinalNewline(d) == IF d = << >> \/ d[Len(d)] # LF THEN Append(d, LF) ELSE d

\* The backslash-newline pairs of t, scanned from index i, that end within its
\* first upto bytes.
RECURSIVE RefSplices(_, _, _)
RefSplices(t, i, upto) ==
    IF i > Len(t) \/ i > upto
    THEN 0
    ELSE IF t[i] = BSL
    THEN LET j == RefSkipBlank(t, i + 1)
         IN  IF j <= Len(t) /\ t[j] \in {CR, LF}
             THEN (IF RefAfterTerminator(t, j) - 1 <= upto THEN 1 ELSE 0)
                  + RefSplices(t, RefAfterTerminator(t, j), upto)
             ELSE RefSplices(t, i + 1, upto)
    ELSE IF t[i] \in {CR, LF}
    THEN RefSplices(t, RefAfterTerminator(t, i), upto)
    ELSE RefSplices(t, i + 1, upto)

EndsInNewline(t) == t # << >> /\ t[Len(t)] \in {CR, LF}

-----------------------------------------------------------------------------
(* The reader *)

\* C1: whenever peek returns, it returns the character the next get returns from
\* that state (stash, cursor and last-delivered character as they are), and it
\* leaves the streams and the active stream as they were.
C1_PeekIsNextGet ==
    [][(op' = "peek" /\ status' = "ok" /\ last # 0 /\ Active.init)
          => /\ ret' = stream_next(Active).ch
             /\ streams' = streams
             /\ last' = last]_vars

\* a peek that looked past a backslash-newline to the character after it
C1_Witness ==
    /\ HasStream
    /\ op = "peek"
    /\ Active.stashed = << >>
    /\ Active.pc < pe(Active)
    /\ At(Active, Active.pc) = BSL
    /\ ret = CH_a

\* C2, as claimed: the characters get delivers are the bytes of the source with
\* every line terminator turned into one line-feed and every backslash-newline
\* (white space allowed between the two) removed, up to the final line-feed.
C2_Original ==
    (pure /\ HasStream) =>
        LET want == WithFinalNewline(RefTransform(Active.text, 1, FALSE))
        IN  /\ IsPrefix(Delivered(out), want)
            /\ (out # Delivered(out) => Delivered(out) = want)

\* C2, amended: as claimed, and a backslash that only white space separates from
\* the end of the source is delivered, with that white space, as one line-feed.
C2_DeliveredIsTransform ==
    (pure /\ HasStream) =>
        LET want == WithFinalNewline(RefTransform(Active.text, 1, TRUE))
        IN  /\ IsPrefix(Delivered(out), want)
            /\ (out # Delivered(out) => Delivered(out) = want)

\* two splices in a row, a CR and an LF one, read to the end of input
C2_Witness ==
    /\ pure
    /\ HasStream
    /\ Active.text = <<BSL, CR, BSL, LF>>
    /\ out = <<LF, EOF>>

\* C3: a get that finds the stash empty and the cursor at the end returns
\* end-of-input when the last delivered character was a line-feed or end-of-input
\* and a line-feed otherwise, and remembers what it returned; with no unget, a
\* source is followed by end-of-input for ever, the character before the first
\* end-of-input is a line-feed, get makes up at most one line-feed, and exactly
\* one when the source does not end in a line terminator.
C3_EndOfInput ==
    /\ [][(op' = "get" /\ status' = "ok" /\ last # 0 /\ Sound(Active)
             /\ stream_pop_value(Active) = EOF /\ Active.pc >= pe(Active))
            => /\ ret' = (IF Active.lastch \in {LF, EOF} THEN EOF ELSE LF)
               /\ streams'[last].lastch = ret'
               /\ streams'[last].pc = Active.pc]_vars
    /\ []((pure /\ HasStream) =>
            /\ synth <= 1
            /\ \A i \in 1..Len(out) : \A j \in i..Len(out) :
                   out[i] = EOF => out[j] = EOF
            /\ out # Delivered(out) =>
                   /\ Delivered(out) # << >>
                   /\ Delivered(out)[Len(Delivered(out))] = LF
                   /\ (~EndsInNewline(Active.text) => synth = 1))

\* a source without final newline: its character, one line-feed, end-of-input twice
C3_Witness ==
    /\ pure
    /\ HasStream
    /\ Active.text = <<CH_a>>
    /\ out = <<CH_a, LF, EOF, EOF>>

C5_FailedPushLeavesNoStream ==
    [][(op' = "push" /\ ~retb') =>
          /\ Len(streams') = Len(streams)
          /\ (Len(streams') = 0) = (Len(streams) = 0)
          /\ last' = last]_vars

\* C6, as claimed: with gets only, the line is 1 plus one for every line-feed
\* delivered and every backslash-newline spliced away.
C6_Original ==
    (pure /\ HasStream) =>
        Active.line = 1 + CountLF(out) + RefSplices(Active.text, 1, Active.pc)

\* C6, amended: the line never decreases, and with gets only it is 1 plus one
\* for every line terminator of the source delivered as a line-feed and every
\* backslash-newline spliced away; a line-feed made up at the end of the source
\* does not count.
C6_LineCountsSourceLines ==
    /\ [][(status' = "ok" /\ last # 0 /\ Sound(Active) /\ op' \in {"get", "peek", "unget"})
            => streams'[last].line >= Active.line]_vars
    /\ []((pure /\ HasStream) =>
            Active.line = 1 + (CountLF(out) - synth)
                            + RefSplices(Active.text, 1, Active.pc))

\* a splice, a CR LF and a made-up final line-feed: line 3 at end of input
C6_Witness ==
    /\ pure
    /\ HasStream
    /\ Active.text = <<BSL, LF, LF, CH_a>>
    /\ out = <<LF, CH_a, LF, EOF>>
    /\ Active.line = 3

\* C7: the cursor of every stream lies within its bytes; right after every line
\* step of a get the column is 1 and the line start is the cursor, and so they
\* are when get returns a line terminator of the source.
C7_CursorAndLineStart ==
    /\ \A i \in 1..Len(streams) :
           streams[i].init => streams[i].pc \in 0..pe(streams[i])
    /\ \A k \in 1..Len(trans) :
           trans[k].column = 1 /\ trans[k].line_note = trans[k].pc
    /\ (HasStream /\ op = "get" /\ how = "newline") =>
           /\ Active.column = 1
           /\ Active.line_note = Active.pc
           /\ trans # << >>

\* a get that spliced a line and then delivered the character after it
C7_Witness ==
    /\ HasStream
    /\ op = "get"
    /\ how = "byte"
    /\ Len(trans) = 1
    /\ Active.column = 2
    /\ Active.line = 2

-----------------------------------------------------------------------------
(* The lexer's token stash *)

\* The active frame.
Top == snapshots[Len(snapshots)]

\* The tokens a frame holds, oldest first: element i is the token untread stored
\* in the i-th item array_push handed out.
Elements(a) == [i \in 1..array_length(a) |-> array_prototype(a, array_at(a, i - 1))]

LexerReady == status = "ok" /\ snapshots # << >>

\* C8: a next that finds tokens in the active frame returns the token untread
\* stored last and takes it off the frame, so that tokens untread as tn, ..., t1
\* come back as t1, ..., tn, for one token and for more.
C8_UntreadThenNext ==
    [][(op' = "next" /\ LexerReady /\ array_length(Top) > 0) =>
          /\ status' = "ok"
          /\ rtok' = Elements(Top)[array_length(Top)]
          /\ Len(snapshots') = Len(snapshots)
          /\ Elements(snapshots'[Len(snapshots')])
                = SubSeq(Elements(Top), 1, array_length(Top) - 1)]_vars

\* C9: a peek returns the token that a next issued right after it returns, and
\* so does a second peek; a peek that returns END leaves the stash as it was.
C9_PeekIsIdempotent ==
    [][(op' = "peek" /\ status' = "ok") =>
          /\ lexer_next_of(snapshots', streams', last', tok').st = "ok"
          /\ lexer_next_of(snapshots', streams', last', tok').tok = rtok'
          /\ (rtok'.type = "TOKEN_END" => snapshots' = snapshots)]_vars

\* C10: stash adds an empty frame on top of the frames there are; next, peek
\* and untread leave every frame but the top one as it was, and a next that
\* finds the top frame empty takes its token from the reader; unstash removes
\* the top frame and nothing else, so that the frame below holds what it held.
C10_FramesNestLifo ==
    [][(LexerReady /\ status' = "ok") =>
          /\ op' = "stash" =>
                /\ Len(snapshots') = Len(snapshots) + 1
                /\ SubSeq(snapshots', 1, Len(snapshots)) = snapshots
                /\ array_length(snapshots'[Len(snapshots')]) = 0
          /\ op' \in {"next", "peek", "untread"} =>
                /\ Len(snapshots') = Len(snapshots)
                /\ SubSeq(snapshots', 1, Len(snapshots) - 1)
                      = SubSeq(snapshots, 1, Len(snapshots) - 1)
          /\ (op' = "next" /\ array_length(Top) = 0) =>
                /\ snapshots' = snapshots
                /\ IsToken(rtok')
          /\ op' = "unstash" =>
                snapshots' = SubSeq(snapshots, 1, Len(snapshots) - 1)]_vars

\* a next in an empty inner frame, over an outer frame that holds a token: it
\* scanned the line-feed after the identifier the outer frame keeps
C10_Witness ==
    /\ status = "ok"
    /\ op = "next"
    /\ Len(snapshots) = 2
    /\ array_length(snapshots[1]) = 1
    /\ Elements(snapshots[1])[1].type = "TOKEN_IDENTIFIER"
    /\ array_length(snapshots[2]) = 0
    /\ rtok.type = "TOKEN_NEW_LINE"

\* C11: unstash destroys every token that is still in the frame it takes off:
\* none of them stays allocated with no frame and no caller owning it.
C11_UnstashDrainsFrame ==
    [][(op' = "unstash" /\ LexerReady /\ status' = "ok") =>
          \A i \in 1..array_length(Top) :
              IsToken(Elements(Top)[i]) => Elements(Top)[i] \in destroyed']_vars

-----------------------------------------------------------------------------
(* The scanner *)

\* The source being scanned.
Source == Active.text

\* The kinds of the tokens scanned so far.
Kinds == [i \in 1..Len(toks) |-> toks[i].type]

\* C12: over a source, every scan ends and returns a token, and a scan that
\* does not return END took at least one character from the reader; so the
\* scans of a finite source come to END.
C12_ScanEndsAndAdvances ==
    [][(op' = "scan" /\ status = "ok" /\ last # 0) =>
          /\ status' = "ok"
          /\ IsToken(rtok')
          /\ (rtok'.type # "TOKEN_END" => got' > got)]_vars

\* The characters the reader has still to deliver from stream s, up to EOF.
RECURSIVE Rest(_)
Rest(s) ==
    Only({IF r.ch = EOF THEN << >> ELSE <<r.ch>> \o Rest(r.s) :
            r \in {stream_next(s)}})

\* q begins with the characters of p.
StartsWith(q, p) == Len(q) >= Len(p) /\ SubSeq(q, 1, Len(p)) = p

\* q opens a block comment that it does not close.
Unterminated(q) ==
    /\ StartsWith(q, <<47, 42>>)
    /\ \A i \in 3..(Len(q) - 1) : ~(q[i] = 42 /\ q[i + 1] = 47)

\* C13: a scan that finds a block comment the source does not close emits a
\* diagnostic and returns a COMMENT token, and the scan after it returns END.
C13_UnterminatedComment ==
    [][(op' = "scan" /\ status = "ok" /\ last # 0 /\ tok.spaces = 0
           /\ Unterminated(Rest(Active))) =>
          /\ status' = "ok"
          /\ rtok'.type = "TOKEN_COMMENT"
          /\ diags' > 0
          /\ lexer_scan(LexState(streams'[last'], tok')).tok.type = "TOKEN_END"]_vars

\* C14: scan takes the longest operator: a source that is one of the spellings
\* yields one token of the kind token_dictionary gives it, and then the
\* line-feed of the end of input; when a longer operator does not complete,
\* in "..a" and "%:%a", the character read ahead is put back and begins the
\* next token.
C14_MaximalMunch ==
    (last # 0 /\ Len(toks) >= 1 /\ toks[1].type # "TOKEN_SPACE") =>
        /\ \A p \in Spellings :
              (Source = p[1] /\ Len(toks) >= 2) =>
                  /\ toks[1].type = p[2]
                  /\ toks[2].type = "TOKEN_NEW_LINE"
        /\ (Source = <<46, 46, 97>> /\ Len(toks) >= 3) =>
              /\ SubSeq(Kinds, 1, 3) = <<"TOKEN_PERIOD", "TOKEN_PERIOD", "TOKEN_IDENTIFIER">>
              /\ toks[3].cs = <<97>>
        /\ (Source = <<37, 58, 37, 97>> /\ Len(toks) >= 3) =>
              /\ SubSeq(Kinds, 1, 3) = <<"TOKEN_HASH", "TOKEN_PERCENT", "TOKEN_IDENTIFIER">>
              /\ toks[3].cs = <<97>>

I_PLUS_PLUS == <<105, 43, 43>>

EndRun == [i \in 1..MaxToks |-> "TOKEN_END"]

Spell(t) ==
    CASE t.type = "TOKEN_SPACE" -> [i \in 1..t.spaces |-> SP]
      [] t.type = "TOKEN_NEW_LINE" -> <<LF>>
      [] OTHER -> t.cs

RECURSIVE SpellAll(_)
SpellAll(q) == IF q = << >> THEN << >> ELSE Spell(q[1]) \o SpellAll(Tail(q))

\* The scans have just come to the end of the source.
AtFirstEnd ==
    /\ last # 0
    /\ Len(toks) >= 1
    /\ toks[Len(toks)].type = "TOKEN_END"
    /\ \A i \in 1..(Len(toks) - 1) : toks[i].type # "TOKEN_END"

\* C16: once the scans of a source have come to END, what the tokens stand
\* for, put together in order, is the source after translation phases 1 and 2
\* (with or without the line-feed the reader adds at its end); so the literal
\* of a COMMENT token is the text of the comment.
C16_RoundTrip ==
    AtFirstEnd =>
        SpellAll(toks) \in {RefTransform(Source, 1, TRUE),
                            WithFinalNewline(RefTransform(Source, 1, TRUE))}

\* The stream s after n more characters were read from it.
RECURSIVE Replay(_, _)
Replay(s, n) ==
    IF n = 0 THEN s ELSE Only({Replay(r.s, n - 1) : r \in {stream_next(s)}})

\* The line and column at which the reader stands, under its own rules for
\* phases 1 and 2, when it has delivered the first n characters of the source
\* text: the place of character n + 1.
PlaceOf(text, n) ==
    Only({[line |-> s.line, column |-> s.column] :
            s \in {Replay(stream_init(STREAM_TYPE_STRING, text), n)}})

\* C17: a token that scan returns carries the line and column of its first
\* character, the character that follows those the scans before it took;
\* also when the token before it put a character back, and when the token
\* is a string or character constant with an escape sequence in it.
C17_TokenLocation ==
    [][(op' = "scan" /\ status = "ok" /\ status' = "ok" /\ last # 0
           /\ tok.spaces = 0 /\ IsToken(rtok') /\ rtok'.type # "TOKEN_END") =>
          [line |-> rtok'.line, column |-> rtok'.column] = PlaceOf(Source, got)]_vars

\* The length of the run of white space, line-feeds apart, that q begins with.
RECURSIVE HRun(_)
HRun(q) ==
    IF q # << >> /\ ISSPACE(q[1]) /\ q[1] # LF THEN 1 + HRun(Tail(q)) ELSE 0

\* C18: scan returns a SPACE token when, and only when, a run of white space
\* other than line-feeds is next in the reader; it takes that run and no more,
\* and the token's spaces is the length of that run, whatever runs the scans
\* before it took.
C18_SpaceIsTheRun ==
    [][(op' = "scan" /\ status = "ok" /\ status' = "ok" /\ last # 0) =>
          \E n \in {HRun(Rest(Active))} :
              /\ (rtok'.type = "TOKEN_SPACE") = (n > 0)
              /\ (n > 0) => (rtok'.spaces = n /\ got' = got + n)]_vars

\* What a scan of stream s returns to a lexer whose scratch token keeps tk: how
\* it ends and the kind, literal and spaces of the token.
Scanned(s, tk) ==
    Only({[st |-> r.L.st, type |-> r.tok.type, cs |-> r.tok.cs,
           spaces |-> r.tok.spaces] : r \in {lexer_scan(LexState(s, tk))}})

\* C19: the lexer keeps nothing from one token to the next but the reader's
\* position and the stash: when two lexers with empty stashes stand on readers
\* in the same state, a scan returns to both a token of the same kind, literal
\* and spaces, whatever each of them scanned before.
C19_NoStateBetweenTokens ==
    (status = "ok" /\ twin.st = "ok" /\ last # 0 /\ twin.on
        /\ Len(streams) = 1 /\ Active = twin.s
        /\ \A k \in 1..Len(snapshots) : array_length(snapshots[k]) = 0) =>
        Scanned(Active, tok) = Scanned(twin.s, twin.tk)

\* The encoding prefixes, each with the kind of the character constant and of
\* the string literal it makes.
Prefixes ==
    {<<(<<117>>), "TOKEN_CONSTANT_CHAR16", "TOKEN_CONSTANT_STRING16">>,
     <<(<<117, 56>>), "TOKEN_CONSTANT_UTF8CHAR", "TOKEN_CONSTANT_UTF8STRING">>,
     <<(<<85>>), "TOKEN_CONSTANT_CHAR32", "TOKEN_CONSTANT_STRING32">>,
     <<(<<76>>), "TOKEN_CONSTANT_WCHAR", "TOKEN_CONSTANT_WSTRING">>,
     <<(<< >>), "TOKEN_CONSTANT_CHAR", "TOKEN_CONSTANT_STRING">>}

\* q is the character c between two quotes of value quote.
OneBetween(q, quote) ==
    /\ StartsWith(q, <<quote>>)
    /\ Len(q) >= 3
    /\ q[2] \notin {quote, BSL, LF}
    /\ q[3] = quote

\* C20: when a scan finds a quote, after u, u8, U, L or nothing, the token it
\* returns has the kind that the prefix and the quote fix, and its literal
\* holds what stands between the quotes, without the prefix.  (A scan that
\* returns NULL returns no token: that is C24.)
C20_PrefixFixesKind ==
    [][(op' = "scan" /\ status = "ok" /\ status' = "ok" /\ last # 0
           /\ tok.spaces = 0 /\ IsToken(rtok')) =>
          \A p \in Prefixes : \E q \in {Rest(Active)} :
              StartsWith(q, p[1]) =>
                  \E body \in {SubSeq(q, Len(p[1]) + 1, Len(q))} :
                      /\ StartsWith(body, <<39>>) => rtok'.type = p[2]
                      /\ StartsWith(body, <<34>>) => rtok'.type = p[3]
                      /\ OneBetween(body, 39) => rtok'.cs = <<body[2]>>
                      /\ OneBetween(body, 34) => rtok'.cs = <<body[2]>>]_vars

\* the scan of u8"a" has returned a UTF-8 string with the literal a
C20_Witness ==
    /\ last # 0
    /\ status = "ok"
    /\ op = "scan"
    /\ Source = <<117, 56, 34, 97, 34>>
    /\ Len(toks) = 1
    /\ rtok.type = "TOKEN_CONSTANT_UTF8STRING"
    /\ rtok.cs = <<97>>

\* A character that an identifier goes on with.
IsIdChar(c) == ISIDNUM(c) \/ c = 36 \/ c \in 128..253

\* The longest run of such characters that q begins with.
RECURSIVE IdRun(_)
IdRun(q) ==
    IF q # << >> /\ IsIdChar(q[1]) THEN <<q[1]>> \o IdRun(Tail(q)) ELSE << >>

\* q begins with u, u8, U or L and no quote follows it at once.
PrefixWithoutQuote(q) ==
    /\ q # << >>
    /\ q[1] \in {117, 85, 76}
    /\ \A p \in Prefixes :
          p[1] # << >> => ~StartsWith(q, p[1] \o <<34>>) /\ ~StartsWith(q, p[1] \o <<39>>)

\* C21: when u, U or L, or u and 8, is not followed at once by a quote, scan
\* returns an IDENTIFIER whose literal is the longest run of identifier
\* characters that begins at that letter, and takes those characters and no
\* other from the reader: none is dropped.
C21_PrefixBeginsIdentifier ==
    [][(op' = "scan" /\ status = "ok" /\ last # 0 /\ tok.spaces = 0) =>
          \E q \in {Rest(Active)} : \E run \in {IdRun(q)} :
              (PrefixWithoutQuote(q) /\ ~StartsWith(q, run \o <<BSL>>)) =>
                  /\ status' = "ok"
                  /\ rtok'.type = "TOKEN_IDENTIFIER"
                  /\ rtok'.cs = run
                  /\ got' = got + Len(run)]_vars

\* Identifiers spelled with a universal character name, each with the bytes
\* of its literal: the UTF-8 form of U+00E9 is 0xC3 0xA9.
UcnIdentifiers ==
    {<<(<<92, 117, 48, 48, 101, 57>>), (<<195, 169>>)>>,
     <<(<<97, 92, 117, 48, 48, 101, 57>>), (<<97, 195, 169>>)>>,
     <<(<<97, 92, 85, 48, 48, 48, 48, 48, 48, 101, 57, 97>>), (<<97, 195, 169, 97>>)>>}

\* C22: a universal character name in an identifier, at its start as in its
\* middle, is decoded: the first token of such a source is an IDENTIFIER whose
\* literal holds the UTF-8 bytes of the code point, not the characters of the
\* escape.
C22_UcnInIdentifier ==
    (last # 0 /\ Len(toks) >= 1 /\ toks[1].type # "TOKEN_SPACE") =>
        \A p \in UcnIdentifiers :
            Source = p[1] =>
                /\ toks[1].type = "TOKEN_IDENTIFIER"
                /\ toks[1].cs = p[2]

\* Bytes that begin no token.
Unexpected == {64, 96, 254, 255}

\* C23: a scan that meets an unexpected character reports it as a diagnostic
\* and goes on: it does not abort, it takes the character and returns a
\* token, so that later scans come to END.
C23_UnexpectedCharacter ==
    [][(op' = "scan" /\ status = "ok" /\ last # 0 /\ tok.spaces = 0) =>
          \E q \in {Rest(Active)} :
              (q # << >> /\ q[1] \in Unexpected) =>
                  /\ status' = "ok"
                  /\ IsToken(rtok')
                  /\ diags' > 0
                  /\ got' > got]_vars

\* C24: no memory allocation fails here, so every scan that ends returns a
\* token and never NULL, whatever the source: also a literal or an identifier
\* with a universal character name of 0x200000 or more, or with digits that
\* are not hexadecimal.
C24_NullOnlyWithoutMemory ==
    [][(op' = "scan" /\ status = "ok" /\ status' = "ok" /\ last # 0) =>
          IsToken(rtok')]_vars

-----------------------------------------------------------------------------
(* The character buffer *)

\* The number of bytes UTF-8 takes for code point r.
Utf8Length(r) ==
    IF r < 128 THEN 1 ELSE IF r < 2048 THEN 2 ELSE IF r < 65536 THEN 3 ELSE 4

\* b has the bit layout of UTF-8: 0xxxxxxx, or a lead byte 110xxxxx, 1110xxxx
\* or 11110xxx and continuation bytes 10xxxxxx.
Utf8WellFormed(b) ==
    /\ Len(b) \in 1..4
    /\ b[1] \in (CASE Len(b) = 1 -> 0..127
                   [] Len(b) = 2 -> 192..223
                   [] Len(b) = 3 -> 224..239
                   [] OTHER -> 240..247)
    /\ \A i \in 2..Len(b) : b[i] \in 128..191

\* The code point whose bits the bytes of b carry.
RECURSIVE Utf8Payload(_, _)
Utf8Payload(b, acc) ==
    IF b = << >> THEN acc ELSE Utf8Payload(Tail(b), acc * 64 + (b[1] - 128))

Utf8Decode(b) ==
    IF Len(b) = 1 THEN b[1]
    ELSE Utf8Payload(Tail(b), b[1] - (CASE Len(b) = 2 -> 192
                                        [] Len(b) = 3 -> 224
                                        [] OTHER -> 240))

\* C25: cstring_append_utf8 appends 1, 2, 3 or 4 bytes for a code point below
\* 0x80, 0x800, 0x10000 and 0x200000, in the bit layout of UTF-8, after the
\* bytes the buffer held; a code point of 0x200000 or more it rejects: it
\* returns NULL and the buffer is as it was.
C25_AppendUtf8 ==
    [][cret'.f = "append_utf8" =>
          \E r \in {cret'.arg} :
              \E b \in {SubSeq(hdr'.buffer, hdr.length + 1, hdr'.length)} :
                  IF r >= 0 /\ r < 2097152
                  THEN /\ cret'.val # NUL
                       /\ SubSeq(hdr'.buffer, 1, hdr.length)
                              = SubSeq(hdr.buffer, 1, hdr.length)
                       /\ Len(b) = Utf8Length(r)
                       /\ Utf8WellFormed(b)
                       /\ Utf8Decode(b) = r
                  ELSE /\ cret'.val = NUL
                       /\ hdr' = hdr]_vars

\* U+FFFF was appended after one byte: the buffer holds a, 0xEF, 0xBF, 0xBF
C25_Witness ==
    /\ cret = [f |-> "append_utf8", arg |-> 65535, val |-> 1]
    /\ hdr.length = 4
    /\ SubSeq(hdr.buffer, 1, 4) = <<97, 239, 191, 191>>

-----------------------------------------------------------------------------
(* Literals *)

\* The characters of q before its first line-feed.
RECURSIVE LineOf(_)
LineOf(q) ==
    IF q = << >> \/ q[1] = LF THEN << >> ELSE <<q[1]>> \o LineOf(Tail(q))

-----------------------------------------------------------------------------
(* Tokens as objects *)

\* The objects a token is made of.
Storage(t) == {t.self, t.literals, t.loc, t.row, t.fn} \ {0}

\* C27: a token that token_dup returned shares no object with the token it was
\* made from; no object is released twice, in whatever order the client
\* destroys its tokens; and every object of a token the client still holds is
\* allocated.
C27_DupOwnsItsStorage ==
    /\ \A t \in mem.tokens : \A u \in mem.tokens :
          u.of = t.self => Storage(t) \cap Storage(u) = {}
    /\ mem.twice = {}
    /\ \A t \in mem.tokens : Storage(t) \subseteq mem.live

-----------------------------------------------------------------------------
(* The character buffer: pop, clear, update-length *)

\* C28: cstring_pop_ch on a buffer that holds bytes returns the last of them,
\* takes one from length and adds one to unused; on an empty buffer it returns
\* EOF and changes nothing; cstring_clear sets length to 0; and each of
\* cstring_pop_ch, cstring_clear and cstring_update_length keeps the sum of
\* length and unused and leaves a zero byte at index length.
C28_PopClearUpdate ==
    [][cret'.f \in {"pop_ch", "clear", "update_length"} =>
          /\ hdr'.length + hdr'.unused = hdr.length + hdr.unused
          /\ hdr'.buffer[hdr'.length + 1] = 0
          /\ cret'.f = "pop_ch" =>
                IF hdr.length > 0
                THEN /\ cret'.val = hdr.buffer[hdr.length]
                     /\ hdr'.length = hdr.length - 1
                     /\ hdr'.unused = hdr.unused + 1
                ELSE /\ cret'.val = EOF
                     /\ hdr' = hdr
          /\ cret'.f = "clear" => hdr'.length = 0]_vars

\* the second of two bytes was popped: one byte is left and one of headroom
C28_Witness ==
    /\ cret = [f |-> "pop_ch", arg |-> 0, val |-> 97]
    /\ hdr = [length |-> 1, unused |-> 1, buffer |-> <<97, 0, 0>>]

-----------------------------------------------------------------------------
(* Tokens from next *)

\* The characters of the line the reader stands in that the tokens before
\* took: from the start of the line to the cursor, less what was put back.
TakenOfLine(s) == SubSeq(s.text, s.line_note + 1, s.pc - Len(s.stashed))

\* C29: a token that next takes from the reader has begin_of_line set when
\* only white space precedes it on its line, and clear when a token does: on
\* the first line and on every later line.
C29_BeginOfLine ==
    [][(op' = "next" /\ LexerReady /\ status' = "ok" /\ last # 0
           /\ tok.spaces = 0 /\ array_length(Top) = 0 /\ IsToken(rtok')) =>
          \E before \in {TakenOfLine(Active)} :
              rtok'.bol = \A i \in 1..Len(before) : ISSPACE(before[i])]_vars

-----------------------------------------------------------------------------
(* Numbers *)

\* The longest run that q begins with of characters a pp-number goes on with
\* after the character prev: an identifier character, a period, a single
\* quote, or a sign when prev is e, E, p or P.
RECURSIVE PpRun(_, _)
PpRun(q, prev) ==
    IF q # << >>
       /\ \/ IsIdChar(q[1])
          \/ q[1] \in {46, 39}
          \/ (q[1] \in {43, 45} /\ prev \in {101, 69, 112, 80})
    THEN <<q[1]>> \o PpRun(Tail(q), q[1])
    ELSE << >>

\* q begins with a digit, or with a period and a digit.
BeginsNumber(q) ==
    /\ q # << >>
    /\ \/ ISDIGIT(q[1])
       \/ (q[1] = 46 /\ Len(q) >= 2 /\ ISDIGIT(q[2]))

\* C30: a scan that finds a digit, or a period and a digit, returns a NUMBER
\* whose literal is that character and the longest run after it of identifier
\* characters, periods, single quotes and signs that follow e, E, p or P; it
\* takes those characters and no other, so a sign after any other character
\* begins the next token.
C30_PpNumber ==
    [][(op' = "scan" /\ status = "ok" /\ last # 0 /\ tok.spaces = 0) =>
          \E q \in {Rest(Active)} :
              BeginsNumber(q) =>
                  /\ status' = "ok"
                  /\ rtok'.type = "TOKEN_NUMBER"
                  /\ rtok'.cs = <<q[1]>> \o PpRun(Tail(q), q[1])
                  /\ got' = got + Len(rtok'.cs)]_vars

-----------------------------------------------------------------------------
(* Escape sequences *)

\* The escape characters with a fixed byte, each with its byte.
SimpleEscapes ==
    {<<39, 39>>, <<34, 34>>, <<63, 63>>, <<BSL, BSL>>, <<97, 7>>, <<98, 8>>,
     <<102, 12>>, <<110, 10>>, <<114, 13>>, <<116, 9>>, <<118, 11>>,
     <<101, 27>>, <<69, 27>>}

\* The length of the longest run of characters of q, from position i on and of
\* at most n characters, that are all in the set D.
RECURSIVE RunLen(_, _, _, _)
RunLen(q, i, n, D) ==
    IF n > 0 /\ i <= Len(q) /\ q[i] \in D THEN 1 + RunLen(q, i + 1, n - 1, D) ELSE 0

\* The value of the digits q[i..j] in the base b.
RECURSIVE Fold(_, _, _, _)
Fold(q, i, j, b) ==
    IF j < i THEN 0 ELSE Fold(q, i, j - 1, b) * b + TODIGIT(q[j])

HexDigits == (48..57) \cup (65..70) \cup (97..102)

\* The escape sequence that q begins with, q[1] being the character after the
\* backslash: the byte it stands for, the number of characters of q it is made
\* of and the number of diagnostics it gives.
EscapeOf(q) ==
    IF \E p \in SimpleEscapes : p[1] = q[1]
    THEN [byte |-> (CHOOSE p \in SimpleEscapes : p[1] = q[1])[2], len |-> 1, diags |-> 0]
    ELSE IF q[1] = 120
    THEN LET n == RunLen(q, 2, Len(q), HexDigits)
         IN  [byte |-> Fold(q, 2, n + 1, 16) % 256, len |-> n + 1,
              diags |-> IF n = 0 THEN 1 ELSE 0]
    ELSE IF q[1] \in 48..55
    THEN LET n == RunLen(q, 2, 2, 48..55)
         IN  [byte |-> Fold(q, 1, n + 1, 8) % 256, len |-> n + 1, diags |-> 0]
    ELSE [byte |-> q[1], len |-> 1, diags |-> 1]

\* The literal that q holds after its opening quote, up to the first quote
\* that no backslash escapes: its bytes, the diagnostics of its escapes and
\* what follows the closing quote.  ok is false when q has no closing quote on
\* its line or holds a universal character name.
RECURSIVE LiteralOf(_, _)
LiteralOf(q, quote) ==
    IF q = << >> \/ q[1] = LF
    THEN [ok |-> FALSE, cs |-> << >>, diags |-> 0, rest |-> q]
    ELSE IF q[1] = quote
    THEN [ok |-> TRUE, cs |-> << >>, diags |-> 0, rest |-> Tail(q)]
    ELSE IF q[1] = BSL
    THEN IF Len(q) < 2 \/ q[2] \in {117, 85}
         THEN [ok |-> FALSE, cs |-> << >>, diags |-> 0, rest |-> q]
         ELSE LET e == EscapeOf(Tail(q))
                  r == LiteralOf(SubSeq(q, e.len + 2, Len(q)), quote)
              IN  [r EXCEPT !.cs = <<e.byte>> \o @, !.diags = @ + e.diags]
    ELSE LET r == LiteralOf(Tail(q), quote)
         IN  [r EXCEPT !.cs = <<q[1]>> \o @]

\* C31: a string literal holds, for each escape sequence of the source, the
\* byte the sequence stands for (a simple escape its fixed byte, an octal
\* escape the value of at most three octal digits, a hex escape the value of
\* the longest run of hex digits, an unknown escape character itself) and for
\* each other character the character; the scan gives one diagnostic for each
\* hex escape without a digit and each unknown escape character, and it leaves
\* in the input everything after the closing quote.  So does a character
\* constant that is one escape sequence.
C31_EscapeSequences ==
    [][(op' = "scan" /\ status = "ok" /\ last # 0 /\ tok.spaces = 0) =>
          \A p \in Prefixes : \E q \in {Rest(Active)} :
              StartsWith(q, p[1]) =>
                  \E body \in {SubSeq(q, Len(p[1]) + 1, Len(q))} :
                      /\ (StartsWith(body, <<34>>) /\ LiteralOf(Tail(body), 34).ok) =>
                             \E r \in {LiteralOf(Tail(body), 34)} :
                                 /\ status' = "ok"
                                 /\ rtok'.type = p[3]
                                 /\ rtok'.cs = r.cs
                                 /\ diags' = r.diags
                                 /\ Rest(Active') = r.rest
                      /\ (StartsWith(body, <<39, BSL>>) /\ LiteralOf(Tail(body), 39).ok
                              /\ Len(LiteralOf(Tail(body), 39).cs) = 1) =>
                             \E r \in {LiteralOf(Tail(body), 39)} :
                                 /\ status' = "ok"
                                 /\ rtok'.type = p[2]
                                 /\ rtok'.cs = r.cs
                                 /\ diags' = r.diags
                                 /\ Rest(Active') = r.rest]_vars

\* the scan of "\1234" has returned a string of the byte 0123 and the digit 4
C31_Witness ==
    /\ last # 0
    /\ status = "ok"
    /\ op = "scan"
    /\ Source = <<34, 92, 49, 50, 51, 52, 34>>
    /\ Len(toks) = 1
    /\ rtok.type = "TOKEN_CONSTANT_STRING"
    /\ rtok.cs = <<83, 52>>
    /\ diags = 0

-----------------------------------------------------------------------------
(* End of input, with put-back *)

\* C36: once a get has returned end-of-input for a stream, every later get of
\* that stream that finds the put-back stash empty returns end-of-input too,
\* whatever was put back and taken again in between.
C36_EndOfInputIsSticky ==
    [][(op' = "get" /\ status' = "ok" /\ last # 0 /\ Active.init
           /\ last \in ended /\ Active.stashed = << >>) => ret' = EOF]_vars

-----------------------------------------------------------------------------
(* What the lexer puts back *)

\* The source begins an identifier: a letter, an underscore, a dollar, a byte
\* of 0x80..0xFD or a universal character name.
BeginsIdentifier(q) ==
    /\ q # << >>
    /\ \/ ISALPHA(q[1]) \/ q[1] \in {95, 36} \/ q[1] \in 128..253
       \/ (q[1] = BSL /\ Len(q) >= 2 /\ q[2] \in {117, 85})

\* C37: the scan of an identifier, the one scan that puts back a character it
\* has read from the source, never puts back end-of-input or NUL, so the
\* assertion of reader_unget holds in it and the scan returns.
C37_UngetPrecondition ==
    [][(op' = "scan" /\ status = "ok" /\ last # 0 /\ BeginsIdentifier(Rest(Active)))
          => status' = "ok"]_vars

-----------------------------------------------------------------------------
(* The end of a character constant *)

\* C38: a character constant ends at its first quote that no backslash
\* escapes: the scan takes the source up to that quote and no further, and
\* returns one token of the constant's kind, wherever in the constant an
\* escaped quote stands.
C38_EscapedQuoteInConstant ==
    [][(op' = "scan" /\ status = "ok" /\ last # 0 /\ tok.spaces = 0) =>
          \A p \in Prefixes : \E q \in {Rest(Active)} :
              StartsWith(q, p[1]) =>
                  \E body \in {SubSeq(q, Len(p[1]) + 1, Len(q))} :
                      (StartsWith(body, <<39>>) /\ LiteralOf(Tail(body), 39).ok) =>
                          /\ status' = "ok"
                          /\ rtok'.type = p[2]
                          /\ Rest(Active') = LiteralOf(Tail(body), 39).rest]_vars

-----------------------------------------------------------------------------
(* UTF-32 *)

\* b is a run of well-formed UTF-8 sequences.
RECURSIVE Utf8Valid(_)
Utf8Valid(b) ==
    \/ b = << >>
    \/ \E n \in 1..4 :
          /\ n <= Len(b)
          /\ Utf8WellFormed(SubSeq(b, 1, n))
          /\ Utf8Valid(SubSeq(b, n + 1, Len(b)))

\* The code points of a run of well-formed UTF-8 sequences, in order.
RECURSIVE Utf8Runes(_)
Utf8Runes(b) ==
    IF b = << >> THEN << >>
    ELSE LET n == CHOOSE n \in 1..4 : n <= Len(b) /\ Utf8WellFormed(SubSeq(b, 1, n))
         IN  <<Utf8Decode(SubSeq(b, 1, n))>> \o Utf8Runes(SubSeq(b, n + 1, Len(b)))

\* The code points of q, each as four bytes, the low byte first.
RECURSIVE Utf32Le(_)
Utf32Le(q) ==
    IF q = << >> THEN << >>
    ELSE <<q[1] % 256, (q[1] \div 256) % 256, (q[1] \div 65536) % 256,
           q[1] \div 16777216>> \o Utf32Le(Tail(q))

\* C39: cstring_cast_to_utf32 of a buffer that holds well-formed UTF-8 returns
\* a buffer that holds the code points of it, in order, each as four bytes
\* with the low byte first.
C39_CastToUtf32 ==
    [][cret'.f = "cast_to_utf32" =>
          \E b \in {SubSeq(hdr.buffer, 1, hdr.length)} :
              Utf8Valid(b) =>
                  /\ cret'.val # NUL
                  /\ SubSeq(hdr'.buffer, 1, hdr'.length) = Utf32Le(Utf8Runes(b))]_vars

\* ---------------------------------------------------------------------------
\* The dictionary (dict.c): a chained hash table of two tables that is rehashed
\* from ht[0] to ht[1] a bucket at a time.
\*
\* A table is [table, size, mask, used]: table[i], for i in 0..size-1, is the
\* chain of bucket i as the sequence of its keys, head first; a table whose
\* domain is empty is the NULL table. The values stored with the keys are left
\* out: no branch of the code modelled here reads one.
\* ---------------------------------------------------------------------------

\* dict.h is not part of the sources: the initial size is the one dict.c uses to
\* create the first table and as the floor of a resize.
DICT_HASH_TABLE_INITIAL_SIZE == 4

dict_force_resize_ratio == 5

\* The bits of the unsigned long that holds a cursor of dict_scan: a word of one
\* byte. The masks of the tables of the model stay below 2^5.
LongBits == 8

\* The keys a client stores. The hash function is the client's (dict_type_t):
\* here the key itself, so that 1 and 5 share a bucket of a table of 4, and 2, 6
\* and 14, and that ten empty buckets lie before 14 in a table of 16.
DictKeys == {1, 2, 5, 6, 14}

dict_hash_key(key) == key

\* The operators of C on unsigned words.
RECURSIVE AND(_, _)
AND(a, b) ==
    IF a = 0 \/ b = 0 THEN 0
    ELSE (a % 2) * (b % 2) + 2 * AND(a \div 2, b \div 2)

OR(a, b) == a + b - AND(a, b)

XOR(a, b) == a + b - 2 * AND(a, b)

NOT(a) == (2 ^ LongBits - 1) - a

SHL(a, s) == (a * 2 ^ s) % (2 ^ LongBits)

SHR(a, s) == a \div (2 ^ s)

\* key == he->key || dict_compare_keys(d, key, he->key), along a chain
InChain(chain, key) == \E i \in 1..Len(chain) : chain[i] = key

\* The chain without its first entry of the key.
Unlink(chain, key) ==
    LET i == CHOOSE j \in 1..Len(chain) :
                 chain[j] = key /\ \A k \in 1..(j - 1) : chain[k] # key
    IN  SubSeq(chain, 1, i - 1) \o SubSeq(chain, i + 1, Len(chain))

dict_reset == [table |-> [i \in 0..(-1) |-> << >>], size |-> 0, mask |-> 0, used |-> 0]

\* __dict_init__ writes every field but dict_can_resize, which keeps what
\* pmalloc returned: junk.
dict_init(junk) ==
    [ht |-> [t \in 0..1 |-> dict_reset], rehashidx |-> -1, iterators |-> 0,
     dict_can_resize |-> junk]

dict_is_rehashing(d) == d.rehashidx # -1

RECURSIVE next_power_loop(_, _)
next_power_loop(i, size) == IF i >= size THEN i ELSE next_power_loop(i * 2, size)

dict_next_power(size) == next_power_loop(DICT_HASH_TABLE_INITIAL_SIZE, size)

dict_expand(d, size) ==
    LET realsize == dict_next_power(size)
        n == [table |-> [i \in 0..(realsize - 1) |-> << >>], size |-> realsize,
              mask |-> realsize - 1, used |-> 0]
    IN  IF dict_is_rehashing(d) \/ d.ht[0].used > size THEN [d |-> d, ret |-> FALSE]
        ELSE IF realsize = d.ht[0].size THEN [d |-> d, ret |-> FALSE]
        ELSE IF DOMAIN d.ht[0].table = {} THEN [d |-> [d EXCEPT !.ht[0] = n], ret |-> TRUE]
        ELSE [d |-> [d EXCEPT !.ht[1] = n, !.rehashidx = 0], ret |-> TRUE]

dict_resize(d) ==
    IF ~d.dict_can_resize \/ dict_is_rehashing(d) THEN [d |-> d, ret |-> FALSE]
    ELSE dict_expand(d, Max(d.ht[0].used, DICT_HASH_TABLE_INITIAL_SIZE))

\* The inner loop of dict_rehash over the chain de of the bucket at rehashidx.
RECURSIVE rehash_chain(_, _)
rehash_chain(d, de) ==
    IF de = << >> THEN d
    ELSE rehash_chain([d EXCEPT !.ht[1].table[AND(dict_hash_key(Head(de)), d.ht[1].mask)] =
                               <<Head(de)>> \o @,
                           !.ht[0].used = @ - 1,
                           !.ht[1].used = @ + 1],
                      Tail(de))

\* The loops of dict_rehash: n buckets left to move, empty_visits empty buckets
\* left to skip. The failed assertion of the code ends the program.
RECURSIVE rehash_loop(_, _, _)
rehash_loop(d, n, empty_visits) ==
    IF n = 0 \/ d.ht[0].used = 0 THEN
        IF d.ht[0].used = 0
        THEN [d |-> [d EXCEPT !.ht = [t \in 0..1 |-> IF t = 0 THEN d.ht[1] ELSE dict_reset],
                              !.rehashidx = -1],
              ret |-> FALSE, crashed |-> FALSE]
        ELSE [d |-> d, ret |-> TRUE, crashed |-> FALSE]
    ELSE IF ~(d.ht[0].size > d.rehashidx) THEN [d |-> d, ret |-> FALSE, crashed |-> TRUE]
    ELSE IF d.ht[0].table[d.rehashidx] = << >> THEN
        IF empty_visits - 1 = 0
        THEN [d |-> [d EXCEPT !.rehashidx = @ + 1], ret |-> TRUE, crashed |-> FALSE]
        ELSE rehash_loop([d EXCEPT !.rehashidx = @ + 1], n, empty_visits - 1)
    ELSE rehash_loop([rehash_chain(d, d.ht[0].table[d.rehashidx])
                          EXCEPT !.ht[0].table[d.rehashidx] = << >>, !.rehashidx = @ + 1],
                     n - 1, empty_visits)

dict_rehash(d, n) ==
    IF ~dict_is_rehashing(d) THEN [d |-> d, ret |-> FALSE, crashed |-> FALSE]
    ELSE rehash_loop(d, n, n * 10)

\* The rehash step that does not look at the safe iterators.
dict_rehash_step_always(d) ==
    IF dict_is_rehashing(d) THEN dict_rehash(d, 1)
    ELSE [d |-> d, ret |-> FALSE, crashed |-> FALSE]

\* if (dict_is_rehashing(d)) __dict_rehash_step__(d), as the lookups and the
\* updates begin
dict_rehash_step(d) ==
    IF dict_is_rehashing(d) /\ d.iterators = 0 THEN dict_rehash(d, 1)
    ELSE [d |-> d, ret |-> FALSE, crashed |-> FALSE]

dict_expand_if_needed(d) ==
    IF dict_is_rehashing(d) THEN [d |-> d, ret |-> TRUE]
    ELSE IF d.ht[0].size = 0 THEN dict_expand(d, DICT_HASH_TABLE_INITIAL_SIZE)
    ELSE IF /\ d.ht[0].used >= d.ht[0].size
            /\ (d.dict_can_resize \/ d.ht[0].used \div d.ht[0].size > dict_force_resize_ratio)
         THEN dict_expand(d, d.ht[0].used * 2)
    ELSE [d |-> d, ret |-> TRUE]

\* dict_key_index searching the first table alone.
dict_key_index_first_table(d0, key, hash) ==
    LET e == dict_expand_if_needed(d0)
        d == e.d
    IN  IF ~e.ret THEN [d |-> d, index |-> -1, existing |-> FALSE]
        ELSE IF InChain(d.ht[0].table[AND(hash, d.ht[0].mask)], key)
             THEN [d |-> d, index |-> -1, existing |-> TRUE]
        ELSE [d |-> d, index |-> AND(hash, d.ht[IF dict_is_rehashing(d) THEN 1 ELSE 0].mask),
              existing |-> FALSE]

\* [d, index, existing]: existing tells that *existing was set to an entry.
dict_key_index(d0, key, hash) ==
    LET e == dict_expand_if_needed(d0)
        d == e.d
    IN  IF ~e.ret THEN [d |-> d, index |-> -1, existing |-> FALSE]
        ELSE IF InChain(d.ht[0].table[AND(hash, d.ht[0].mask)], key)
             THEN [d |-> d, index |-> -1, existing |-> TRUE]
        ELSE IF ~dict_is_rehashing(d)
             THEN [d |-> d, index |-> AND(hash, d.ht[0].mask), existing |-> FALSE]
        ELSE IF InChain(d.ht[1].table[AND(hash, d.ht[1].mask)], key)
             THEN [d |-> d, index |-> -1, existing |-> TRUE]
        ELSE [d |-> d, index |-> AND(hash, d.ht[1].mask), existing |-> FALSE]

\* dict_add_raw storing the new entry in ht[0] whether a rehash is under way or not.
dict_add_raw_old_table(d0, key) ==
    LET s == dict_rehash_step(d0)
        k == dict_key_index(s.d, key, dict_hash_key(key))
        i == AND(dict_hash_key(key), k.d.ht[0].mask)
    IN  IF s.crashed THEN [d |-> s.d, entry |-> FALSE, existing |-> FALSE, crashed |-> TRUE]
        ELSE IF k.index = -1
             THEN [d |-> k.d, entry |-> FALSE, existing |-> k.existing, crashed |-> FALSE]
        ELSE [d |-> [k.d EXCEPT !.ht[0].table[i] = <<key>> \o @, !.ht[0].used = @ + 1],
              entry |-> TRUE, existing |-> FALSE, crashed |-> FALSE]

\* [d, entry, existing, crashed]: entry tells that an entry was returned.
dict_add_raw(d0, key) ==
    LET s == dict_rehash_step(d0)
        k == dict_key_index(s.d, key, dict_hash_key(key))
        t == IF dict_is_rehashing(k.d) THEN 1 ELSE 0
    IN  IF s.crashed THEN [d |-> s.d, entry |-> FALSE, existing |-> FALSE, crashed |-> TRUE]
        ELSE IF k.index = -1
             THEN [d |-> k.d, entry |-> FALSE, existing |-> k.existing, crashed |-> FALSE]
        ELSE [d |-> [k.d EXCEPT !.ht[t].table[k.index] = <<key>> \o @, !.ht[t].used = @ + 1],
              entry |-> TRUE, existing |-> FALSE, crashed |-> FALSE]

\* [d, he, crashed]: he tells that an entry was unlinked.
dict_generic_delete(d0, key) ==
    IF d0.ht[0].used = 0 /\ d0.ht[1].used = 0 THEN [d |-> d0, he |-> FALSE, crashed |-> FALSE]
    ELSE
        LET s == dict_rehash_step(d0)
            d == s.d
            h == dict_hash_key(key)
            i0 == AND(h, d.ht[0].mask)
            i1 == AND(h, d.ht[1].mask)
        IN  IF s.crashed THEN [d |-> d, he |-> FALSE, crashed |-> TRUE]
            ELSE IF InChain(d.ht[0].table[i0], key)
                 THEN [d |-> [d EXCEPT !.ht[0].table[i0] = Unlink(@, key), !.ht[0].used = @ - 1],
                       he |-> TRUE, crashed |-> FALSE]
            ELSE IF ~dict_is_rehashing(d) THEN [d |-> d, he |-> FALSE, crashed |-> FALSE]
            ELSE IF InChain(d.ht[1].table[i1], key)
                 THEN [d |-> [d EXCEPT !.ht[1].table[i1] = Unlink(@, key), !.ht[1].used = @ - 1],
                       he |-> TRUE, crashed |-> FALSE]
            ELSE [d |-> d, he |-> FALSE, crashed |-> FALSE]

\* [d, he, crashed]: he tells that an entry was found.
dict_find(d0, key) ==
    IF d0.ht[0].used + d0.ht[1].used = 0 THEN [d |-> d0, he |-> FALSE, crashed |-> FALSE]
    ELSE
        LET s == dict_rehash_step(d0)
            d == s.d
            h == dict_hash_key(key)
        IN  IF s.crashed THEN [d |-> d, he |-> FALSE, crashed |-> TRUE]
            ELSE IF InChain(d.ht[0].table[AND(h, d.ht[0].mask)], key)
                 THEN [d |-> d, he |-> TRUE, crashed |-> FALSE]
            ELSE IF ~dict_is_rehashing(d) THEN [d |-> d, he |-> FALSE, crashed |-> FALSE]
            ELSE [d |-> d, he |-> InChain(d.ht[1].table[AND(h, d.ht[1].mask)], key),
                  crashed |-> FALSE]

\* he->next of the entry of the key: the key after it in its chain, 0 for NULL.
\* The entry is the one of the table where the key sits.
EntryNext(d, key) ==
    LET after(chain) ==
            LET i == CHOOSE j \in 1..Len(chain) : chain[j] = key
            IN  IF i < Len(chain) THEN chain[i + 1] ELSE 0
        c0 == IF d.ht[0].size = 0 THEN << >> ELSE d.ht[0].table[AND(dict_hash_key(key), d.ht[0].mask)]
        c1 == IF d.ht[1].size = 0 THEN << >> ELSE d.ht[1].table[AND(dict_hash_key(key), d.ht[1].mask)]
    IN  IF InChain(c0, key) THEN after(c0) ELSE after(c1)

\* Whether an entry of the key is allocated: in a chain of one of the tables.
EntryLive(d, key) ==
    \E t \in 0..1 : \E i \in DOMAIN d.ht[t].table : InChain(d.ht[t].table[i], key)

\* dict_get_safe_iterator; entry and next are keys, 0 for NULL
dict_get_iterator == [table |-> 0, index |-> -1, safe |-> TRUE, entry |-> 0, next |-> 0]

\* [d, iter, crashed], the entry returned being iter.entry. Reading the next
\* field of an entry that was freed is undefined: it ends the program here.
RECURSIVE dict_next(_, _)
dict_next(d0, iter) ==
    IF iter.entry = 0 THEN
        LET d == IF iter.index = -1 /\ iter.table = 0
                 THEN [d0 EXCEPT !.iterators = @ + 1] ELSE d0
            index == iter.index + 1
            over == index >= d.ht[iter.table].size
            it == IF ~over THEN [iter EXCEPT !.index = index]
                  ELSE [iter EXCEPT !.table = 1, !.index = 0]
            head == d.ht[it.table].table[it.index]
        IN  IF over /\ ~(dict_is_rehashing(d) /\ iter.table = 0)
            THEN [d |-> d, iter |-> [iter EXCEPT !.index = index], crashed |-> FALSE]
            ELSE IF head = << >> THEN dict_next(d, it)
            ELSE [d |-> d, iter |-> [it EXCEPT !.entry = head[1], !.next = EntryNext(d, head[1])],
                  crashed |-> FALSE]
    ELSE IF iter.next = 0 THEN dict_next(d0, [iter EXCEPT !.entry = 0])
    ELSE IF ~EntryLive(d0, iter.next) THEN [d |-> d0, iter |-> iter, crashed |-> TRUE]
    ELSE [d |-> d0, iter |-> [iter EXCEPT !.entry = iter.next, !.next = EntryNext(d0, iter.next)],
          crashed |-> FALSE]

dict_release_iterator(d, iter) ==
    IF ~(iter.index = -1 /\ iter.table = 0) THEN [d EXCEPT !.iterators = @ - 1] ELSE d

RECURSIVE reverse_loop(_, _, _)
reverse_loop(v, s, mask) ==
    IF s = 0 THEN v
    ELSE LET m == XOR(mask, SHL(mask, s))
         IN  reverse_loop(OR(AND(SHR(v, s), m), AND(SHL(v, s), NOT(m))), s \div 2, m)

reverse_parallel(v) == reverse_loop(v, LongBits \div 2, NOT(0))

\* The keys of a chain, each passed to scan_fn.
Emit(chain) == {chain[i] : i \in 1..Len(chain)}

\* dict.h is not part of the sources: a dictionary is empty when its two tables
\* hold no entry.
dict_is_empty(d) == d.ht[0].used + d.ht[1].used = 0

\* The do-while of dict_scan over the buckets of the larger table t1 that expand
\* bucket v & m0 of the smaller: [v, emitted].
RECURSIVE scan_expansion(_, _, _, _)
scan_expansion(t1, v0, m0, emitted) ==
    LET e == emitted \cup Emit(t1.table[AND(v0, t1.mask)])
        v == OR(AND((OR(v0, m0) + 1) % (2 ^ LongBits), NOT(m0)), AND(v0, m0))
    IN  IF AND(v, XOR(m0, t1.mask)) # 0 THEN scan_expansion(t1, v, m0, e)
        ELSE [v |-> v, emitted |-> e]

\* v |= ~m0, then the increment of the reversed cursor
scan_increment(v, m0) ==
    reverse_parallel((reverse_parallel(OR(v, NOT(m0))) + 1) % (2 ^ LongBits))

\* [v, emitted]: the cursor returned and the keys passed to scan_fn
dict_scan(d, v) ==
    IF dict_is_empty(d) THEN [v |-> 0, emitted |-> {}]
    ELSE IF ~dict_is_rehashing(d) THEN
        [v |-> scan_increment(v, d.ht[0].mask),
         emitted |-> Emit(d.ht[0].table[AND(v, d.ht[0].mask)])]
    ELSE
        LET t0 == IF d.ht[0].size > d.ht[1].size THEN d.ht[1] ELSE d.ht[0]
            t1 == IF d.ht[0].size > d.ht[1].size THEN d.ht[0] ELSE d.ht[1]
            r == scan_expansion(t1, v, t0.mask, Emit(t0.table[AND(v, t0.mask)]))
        IN  [v |-> scan_increment(r.v, t0.mask), emitted |-> r.emitted]

\* ---- The client of a dictionary ----

MaxIters == 2

\* The sizes a client asks dict_expand for.
ExpandSizes == {8, 16}

\* The reader, the lexer and the buffers stay as they were created.
DictOnly ==
    UNCHANGED <<streams, last, status, op, ret, retb, hist, lexv, toks, got, twin,
                hdr, cret, mem>>

\* What the client holds after a call f(key) that returned val: st tells whether
\* the program still runs, present is the set of the keys the client added and
\* has not deleted since, iters its safe iterators, scan its iteration with
\* dict_scan: whether one is under way, its cursor, the keys scan_fn has seen
\* and the keys that were present at every moment since it began.
Called(c, crashed, f, key, val) ==
    [c EXCEPT !.st = IF crashed THEN "crashed" ELSE "ok", !.f = f, !.key = key, !.val = val]

dict_create ==
    /\ \E junk \in BOOLEAN : dict = dict_init(junk)
    /\ dcli = [st |-> "ok", present |-> {}, f |-> "create", key |-> 0, val |-> FALSE,
               iters |-> << >>,
               scan |-> [on |-> FALSE, v |-> 0, seen |-> {}, stable |-> {}]]

dict_add(key) ==
    /\ dcli.st = "ok"
    /\ \E r \in {dict_add_raw(dict, key)} :
           /\ dict' = r.d
           /\ dcli' = [Called(dcli, r.crashed, "add", key, r.entry)
                           EXCEPT !.present = @ \cup {key}]
    /\ DictOnly

\* dict_replace reads *existing when no entry was added: a NULL there ends the
\* program.
dict_replace(key) ==
    /\ dcli.st = "ok"
    /\ \E r \in {dict_add_raw(dict, key)} :
           /\ dict' = r.d
           /\ dcli' = [Called(dcli, r.crashed \/ (~r.entry /\ ~r.existing), "replace", key, r.entry)
                           EXCEPT !.present = @ \cup {key}]
    /\ DictOnly

dict_delete(key) ==
    /\ dcli.st = "ok"
    /\ \E r \in {dict_generic_delete(dict, key)} :
           /\ dict' = r.d
           /\ dcli' = [Called(dcli, r.crashed, "delete", key, r.he)
                           EXCEPT !.present = @ \ {key}, !.scan.stable = @ \ {key}]
    /\ DictOnly

find(key) ==
    /\ dcli.st = "ok"
    /\ \E r \in {dict_find(dict, key)} :
           /\ dict' = r.d
           /\ dcli' = Called(dcli, r.crashed, "find", key, r.he)
    /\ DictOnly

rehash(n) ==
    /\ dcli.st = "ok"
    /\ \E r \in {dict_rehash(dict, n)} :
           /\ dict' = r.d
           /\ dcli' = Called(dcli, r.crashed, "rehash", n, r.ret)
    /\ DictOnly

expand(size) ==
    /\ dcli.st = "ok"
    /\ \E r \in {dict_expand(dict, size)} :
           /\ dict' = r.d
           /\ dcli' = Called(dcli, FALSE, "expand", size, r.ret)
    /\ DictOnly

resize ==
    /\ dcli.st = "ok"
    /\ \E r \in {dict_resize(dict)} :
           /\ dict' = r.d
           /\ dcli' = Called(dcli, FALSE, "resize", 0, r.ret)
    /\ DictOnly

get_safe_iterator ==
    /\ dcli.st = "ok"
    /\ Len(dcli.iters) < MaxIters
    /\ dict' = dict
    /\ dcli' = [Called(dcli, FALSE, "get_iterator", 0, TRUE)
                    EXCEPT !.iters = Append(@, dict_get_iterator)]
    /\ DictOnly

\* dict_next on the i-th iterator of the client, which stops calling once it got
\* NULL; val tells that an entry was returned, key which.
next_entry(i) ==
    /\ dcli.st = "ok"
    /\ i \in 1..Len(dcli.iters)
    /\ ~(dcli.iters[i].entry = 0 /\ dcli.iters[i].index # -1)
    /\ \E r \in {dict_next(dict, dcli.iters[i])} :
           /\ dict' = r.d
           /\ dcli' = [Called(dcli, r.crashed, "next", r.iter.entry, r.iter.entry # 0)
                           EXCEPT !.iters[i] = r.iter]
    /\ DictOnly

release_iterator(i) ==
    /\ dcli.st = "ok"
    /\ i \in 1..Len(dcli.iters)
    /\ dict' = dict_release_iterator(dict, dcli.iters[i])
    /\ dcli' = [Called(dcli, FALSE, "release_iterator", 0, TRUE)
                    EXCEPT !.iters = SubSeq(@, 1, i - 1) \o SubSeq(@, i + 1, Len(@))]
    /\ DictOnly

\* A call of dict_scan: the first of an iteration with cursor 0, the others with
\* the cursor the call before returned; the iteration ends when 0 comes back.
scan_step ==
    /\ dcli.st = "ok"
    /\ \E c \in {IF dcli.scan.on THEN dcli.scan
                 ELSE [on |-> TRUE, v |-> 0, seen |-> {}, stable |-> dcli.present]} :
       \E r \in {dict_scan(dict, c.v)} :
           /\ dict' = dict
           /\ dcli' = [Called(dcli, FALSE, "scan", c.v, r.v = 0)
                           EXCEPT !.scan = [on |-> r.v # 0, v |-> r.v,
                                            seen |-> c.seen \cup r.emitted,
                                            stable |-> c.stable]]
    /\ DictOnly

\* The numbers of buckets a client asks dict_rehash to move.
RehashSteps == {1, 2}

\* A reader on its own, and a dictionary the client created.
InitDict ==
    /\ reader_create
    /\ snapshots = << >>
    /\ tok = [spaces |-> 0, bol |-> FALSE]
    /\ held = {}
    /\ rtok = NullTok
    /\ diags = 0
    /\ destroyed = {}
    /\ twin = NoTwin
    /\ hdr = [length |-> 0, unused |-> 0, buffer |-> << >>]
    /\ cret = [f |-> "none", arg |-> 0, val |-> 0]
    /\ mem = [next |-> 1, live |-> {}, once |-> {}, twice |-> {}, tokens |-> {}]
    /\ dict_create

NextDict ==
    \/ \E key \in DictKeys : dict_add(key)
    \/ \E key \in DictKeys : dict_replace(key)
    \/ \E key \in DictKeys : dict_delete(key)
    \/ \E key \in DictKeys : find(key)
    \/ \E n \in RehashSteps : rehash(n)
    \/ \E size \in ExpandSizes : expand(size)
    \/ resize

SpecDict == InitDict /\ [][NextDict]_vars

\* ---- Claims about the dictionary ----

\* The number of entries of the key in the chains of table t.
Entries(d, t, key) ==
    Cardinality({<<i, j>> \in (DOMAIN d.ht[t].table) \X (1..Cardinality(DictKeys) + 1) :
                     j <= Len(d.ht[t].table[i]) /\ d.ht[t].table[i][j] = key})

\* The number of entries of table t.
Stored(d, t) ==
    Cardinality({<<i, j>> \in (DOMAIN d.ht[t].table) \X (1..Cardinality(DictKeys) + 1) :
                     j <= Len(d.ht[t].table[i])})

\* C32: the dictionary is a map while it is rehashed a bucket at a time. After
\* any sequence of dict_add, dict_replace, dict_delete, dict_find, dict_rehash,
\* dict_expand and dict_resize the program still runs, every key the client
\* added and has not deleted since is stored once, in the bucket of its hash,
\* and no other key is stored; the used counters of the two tables count their
\* entries, so that they add up to the number of keys present; dict_find
\* returns an entry exactly for a key that is present.
C32_DictionaryIsAMap ==
    /\ dcli.st = "ok"
    /\ \A key \in DictKeys :
           /\ Entries(dict, 0, key) + Entries(dict, 1, key) = IF key \in dcli.present THEN 1 ELSE 0
           /\ \A t \in 0..1 : \A i \in DOMAIN dict.ht[t].table :
                  InChain(dict.ht[t].table[i], key) => i = AND(dict_hash_key(key), dict.ht[t].mask)
    /\ \A t \in 0..1 : dict.ht[t].used = Stored(dict, t)
    /\ dict.ht[0].used + dict.ht[1].used = Cardinality(dcli.present)
    /\ dcli.f = "find" => dcli.val = (dcli.key \in dcli.present)

\* dict_find has found a key in the new table of a rehash under way, with keys
\* in both tables.
C32_Witness ==
    /\ dcli.f = "find" /\ dcli.val /\ dcli.key = 14
    /\ dict_is_rehashing(dict)
    /\ dict.ht[0].used > 0 /\ dict.ht[1].used > 0
    /\ Entries(dict, 1, 14) = 1
    /\ Cardinality(dcli.present) = Cardinality(DictKeys)

\* The dictionary of a client that goes on calling dict_rehash.
SpecRehash == InitDict /\ [][NextDict]_vars /\ WF_vars(\E n \in RehashSteps : rehash(n))

\* C33: a rehash, once dict_expand has started it, moves the keys to the new
\* table and ends. While a rehash is under way rehashidx is a bucket of ht[0]
\* and every bucket of ht[0] below it is empty. During one rehash ht[0].used
\* never grows, and a key that is added goes to ht[1]. A call of dict_rehash
\* during a rehash either moves rehashidx forward and returns true, with keys
\* left in ht[0], or returns false with every key in ht[0], which is the former
\* ht[1], ht[1] reset and rehashidx = -1. A client that goes on calling
\* dict_rehash sees every rehash end.
C33_IncrementalRehash ==
    /\ [](dict_is_rehashing(dict) =>
              /\ dict.rehashidx \in 0..(dict.ht[0].size - 1)
              /\ \A i \in 0..(dict.rehashidx - 1) : dict.ht[0].table[i] = << >>)
    /\ [][/\ (/\ dict_is_rehashing(dict) /\ dict_is_rehashing(dict')
              /\ dict'.ht[0].size = dict.ht[0].size /\ dict'.ht[1].size = dict.ht[1].size)
             => dict'.ht[0].used <= dict.ht[0].used
          /\ (dcli'.f \in {"add", "replace"} /\ dcli'.val /\ dict_is_rehashing(dict'))
             => Entries(dict', 1, dcli'.key) = 1
          /\ (dcli'.f = "rehash" /\ dict_is_rehashing(dict)) =>
                 IF dcli'.val
                 THEN /\ dict'.rehashidx > dict.rehashidx
                      /\ dict'.ht[0].used > 0
                 ELSE /\ dict'.rehashidx = -1
                      /\ dict'.ht[1] = dict_reset
                      /\ dict'.ht[0].size = dict.ht[1].size
                      /\ dict'.ht[0].used = Cardinality(dcli'.present)
                      /\ Stored(dict', 0) = Cardinality(dcli'.present)
         ]_vars
    /\ (dict_is_rehashing(dict) ~> ~dict_is_rehashing(dict))

\* dict_rehash has returned true in the middle of a rehash, with keys in both
\* tables, one of them added since the rehash began.
C33_Witness ==
    /\ dcli.f = "rehash" /\ dcli.val
    /\ dict.rehashidx > 1
    /\ dict.ht[0].used > 0
    /\ dict.ht[1].used > 1
    /\ \E key \in DictKeys :
           /\ Entries(dict, 1, key) = 1
           /\ AND(dict_hash_key(key), dict.ht[0].mask) >= dict.rehashidx

\* The keys of a client that iterates.
IterKeys == {1, 5}

NextIter ==
    \/ \E key \in IterKeys : dict_add(key)
    \/ \E key \in IterKeys : dict_replace(key)
    \/ \E key \in IterKeys : dict_delete(key)
    \/ \E key \in IterKeys : find(key)
    \/ rehash(1)
    \/ expand(2 * DICT_HASH_TABLE_INITIAL_SIZE)
    \/ get_safe_iterator
    \/ \E i \in 1..MaxIters : next_entry(i)
    \/ \E i \in 1..MaxIters : release_iterator(i)

SpecIter == InitDict /\ [][NextIter]_vars

\* A safe iterator is bound to its dictionary from its first dict_next.
Bound(iter) == ~(iter.index = -1 /\ iter.table = 0)

ScanKeys == {1, 2, 6}

NextDictScan ==
    \/ \E key \in ScanKeys : dict_add(key)
    \/ \E key \in ScanKeys : dict_delete(key)
    \/ \E n \in RehashSteps : rehash(n)
    \/ \E size \in ExpandSizes : expand(size)
    \/ resize
    \/ scan_step

SpecDictScan == InitDict /\ [][NextDictScan]_vars

\* C35: a full iteration with dict_scan misses no element. When the call that
\* ends an iteration returns 0, scan_fn has been passed every key that was
\* present from the first call of the iteration to the last, whatever the
\* client did to the dictionary between the calls.
C35_ScanMissesNothing ==
    (dcli.f = "scan" /\ dcli.val) => dcli.scan.stable \subseteq dcli.scan.seen

====
